---------------------------- MODULE Spec2Model ----------------------------
(***************************************************************************)
(* RideConnect backend (src/backend/server.py): registration and login,    *)
(* the session check, profiles, the follow graph and the ride-request      *)
(* workflow, as state machines over the MongoDB collections the handlers   *)
(* read and write.                                                         *)
(*                                                                         *)
(* A collection is the sequence of its documents in insertion order.  A    *)
(* filter maps a field to the set of values it admits ({v} for equality,   *)
(* the listed values for $in); find_one / update_one / delete_one act on   *)
(* the first document matching the filter.  Identifiers (uuid4,            *)
(* token_urlsafe) are fresh values drawn from counters.  Time is an        *)
(* integer number of days.                                                 *)
(***************************************************************************)
EXTENDS Integers, Sequences, FiniteSets, TLC

VARIABLES
    users,          \* db.users
    user_sessions,  \* db.user_sessions
    user_passwords, \* db.user_passwords
    follows,        \* db.follows
    rides,          \* db.rides
    ride_requests,  \* db.ride_requests
    now,            \* datetime.now(timezone.utc), in days
    next,           \* how many ids of each kind have been generated so far
    resp,           \* the last completed call: its inputs and its HTTP response
    tasks           \* handlers in flight, one per concurrent request (step specs)

vars == <<users, user_sessions, user_passwords, follows, rides, ride_requests,
         now, next, resp, tasks>>

db == <<users, user_sessions, user_passwords, follows, rides, ride_requests>>

(***************************************************************************)
(* Bounds of the model.                                                    *)
(***************************************************************************)
MaxNow == 8         \* the clock stops here
MaxTokens == 4      \* session tokens ever issued
MaxGuests == 1      \* guest users ever created
MaxFollows == 3     \* follow ids ever generated
MaxRides == 1       \* ride ids ever generated
MaxRequests == 2    \* ride-request ids ever generated
MaxSeats == 2       \* largest available_seats a client sends
MaxCallbacks == 2   \* external-identity callbacks that succeed
MaxInbox == 101     \* ride-request ids ever generated where one owner's inbox fills

\* timedelta(days=7)
SessionTTL == 7

\* The users registered before the modelled run starts: three where rides are
\* shared, two where one follows the other.
Riders == {1, 2, 3}
Followers == {1, 2}

(***************************************************************************)
(* Python's None, for a document and for an identifier or token.           *)
(***************************************************************************)
None == [none |-> TRUE]
NoId == 0

(***************************************************************************)
(* The document store.                                                     *)
(***************************************************************************)
Matches(doc, filter) == \A k \in DOMAIN filter : doc[k] \in filter[k]

Matching(coll, filter) == {i \in 1..Len(coll) : Matches(coll[i], filter)}

First(S) == CHOOSE i \in S : \A j \in S : i <= j

find_one(coll, filter) ==
    IF Matching(coll, filter) = {} THEN None ELSE coll[First(Matching(coll, filter))]

\* The cursor of find: the matching documents in natural order.
find(coll, filter) == SelectSeq(coll, LAMBDA doc : Matches(doc, filter))

\* cursor.sort("created_at", -1).  created_at is the clock read when the
\* document is inserted and is never rewritten, so the natural order of a
\* collection is oldest first and newest first is its reverse.
sort_created_at_desc(cursor) == [i \in 1..Len(cursor) |-> cursor[Len(cursor) + 1 - i]]

to_list_none(cursor, length) == << >>

\* cursor.to_list(length): at most the first length documents.
to_list(cursor, length) ==
    IF Len(cursor) <= length THEN cursor ELSE SubSeq(cursor, 1, length)

insert_one_replacing(coll, doc) == <<doc>>

insert_one(coll, doc) == Append(coll, doc)

\* {"$set": fields}
set_one(coll, filter, fields) ==
    IF Matching(coll, filter) = {} THEN coll
    ELSE [coll EXCEPT ![First(Matching(coll, filter))] = fields @@ @]

\* {"$inc": {field: delta}}
inc_one(coll, filter, field, delta) ==
    IF Matching(coll, filter) = {} THEN coll
    ELSE [coll EXCEPT ![First(Matching(coll, filter))][field] = @ + delta]

deleted_count(coll, filter) == IF Matching(coll, filter) = {} THEN 0 ELSE 1

delete_one_nothing(coll, filter) == coll

delete_one(coll, filter) ==
    IF Matching(coll, filter) = {} THEN coll
    ELSE [i \in 1..(Len(coll) - 1) |->
            IF i < First(Matching(coll, filter)) THEN coll[i] ELSE coll[i + 1]]

count_documents(coll, filter) == Cardinality(Matching(coll, filter))

\* {k: v for k, v in update_data.dict().items() if v}
update_dict_of_truthy(update_data) ==
    [k \in {f \in DOMAIN update_data : update_data[f] \notin {<< >>, <<FALSE>>}} |->
        update_data[k][1]]

\* {k: v for k, v in update_data.dict().items() if v is not None}; an Optional
\* field of update_data is << >> (None) or <<v>>.
update_dict_of(update_data) ==
    [k \in {f \in DOMAIN update_data : update_data[f] # << >>} |-> update_data[k][1]]

(***************************************************************************)
(* A request carries a session_token cookie and an Authorization: Bearer   *)
(* header, either of which may be absent (NoId).                           *)
(***************************************************************************)
Request(cookie, bearer) == [cookie |-> cookie, bearer |-> bearer]

\* The record of a completed call; n alternates, so that every call is a step.
Call(op, request, arg, action, code, out) ==
    [op |-> op, request |-> request, arg |-> arg, action |-> action,
     code |-> code, out |-> out, n |-> 1 - resp.n]

NoCall ==
    [op |-> "none", request |-> Request(NoId, NoId), arg |-> NoId, action |-> "none",
     code |-> 0, out |-> None, n |-> 0]

\* This step is the completion of a call of op.
Called(op) == resp'.n # resp.n /\ resp'.op = op

(***************************************************************************)
(* AUTH HELPERS                                                            *)
(***************************************************************************)
\* The header as a second chance when the cookie's token has no row.
extract_token_with_fallback(request) ==
    IF /\ request.cookie # NoId
       /\ find_one(user_sessions, [session_token |-> {request.cookie}]) # None
    THEN request.cookie
    ELSE request.bearer

\* Cookie first, the Authorization header only when there is no cookie.
extract_token(request) ==
    IF request.cookie # NoId THEN request.cookie ELSE request.bearer

session_expired_strict(session) == session.expires_at < now

\* expires_at <= datetime.now(timezone.utc)
session_expired(session) == session.expires_at <= now

\* The session row alone, whatever its expires_at.
get_current_user_unexpiring(request) ==
    LET session_token == extract_token(request)
        session == find_one(user_sessions, [session_token |-> {session_token}])
    IN  IF session_token = NoId THEN None
        ELSE IF session = None THEN None
        ELSE find_one(users, [user_id |-> {session.user_id}])

get_current_user(request) ==
    LET session_token == extract_token(request)
        session == find_one(user_sessions, [session_token |-> {session_token}])
    IN  IF session_token = NoId THEN None
        ELSE IF session = None THEN None
        ELSE IF session_expired(session) THEN None
        ELSE find_one(users, [user_id |-> {session.user_id}])

\* require_auth raises 401 exactly when this is FALSE.
authenticated(request) == get_current_user(request) # None

\* require_auth raising 401: the handler stops before it reads or writes anything else.
Unauthorized(op, request, arg, action) ==
    /\ resp' = Call(op, request, arg, action, 401, "Not authenticated")
    /\ UNCHANGED <<db, now, next, tasks>>

\* bcrypt.hashpw: the hash of a password is a value that only that password
\* verifies against (the salt is left out).
hash_password(password) == <<"bcrypt", password>>

verify_password_never(password, hashed) == FALSE

\* bcrypt.checkpw
verify_password(password, hashed) == hashed = hash_password(password)

create_session_token_reused == next.token

\* secrets.token_urlsafe(32): a value never issued before.
create_session_token == next.token + 1

UserDoc(user_id, email, name, auth_type, created_at) ==
    [user_id |-> user_id, email |-> email, phone |-> NoId, name |-> name,
     profile_picture |-> NoId, bio |-> NoId, profile_type |-> "passenger",
     is_public |-> TRUE, auth_type |-> auth_type, created_at |-> created_at]

SessionDoc(user_id, session_token) ==
    [user_id |-> user_id, session_token |-> session_token,
     expires_at |-> now + SessionTTL, created_at |-> now]

(***************************************************************************)
(* AUTH ENDPOINTS                                                          *)
(***************************************************************************)
email_taken(user_data) ==
    /\ user_data.email # NoId
    /\ find_one(users, [email |-> {user_data.email}]) # None

phone_taken_never(user_data) == FALSE

phone_taken(user_data) ==
    /\ user_data.phone # NoId
    /\ find_one(users, [phone |-> {user_data.phone}]) # None

register(user_data) ==
    LET user_id == next.user + 1
        user_doc == [UserDoc(user_id, user_data.email, user_data.name,
                             user_data.auth_type, now) EXCEPT !.phone = user_data.phone]
        session_token == create_session_token
    IN  IF email_taken(user_data)
        THEN /\ resp' = Call("register", Request(NoId, NoId), NoId, user_data, 400,
                             "Email already registered")
             /\ UNCHANGED <<db, now, next, tasks>>
        ELSE IF phone_taken(user_data)
        THEN /\ resp' = Call("register", Request(NoId, NoId), NoId, user_data, 400,
                             "Phone already registered")
             /\ UNCHANGED <<db, now, next, tasks>>
        ELSE /\ next.token < MaxTokens
             /\ user_passwords' =
                    IF user_data.password # NoId /\ user_data.auth_type = "email"
                    THEN insert_one(user_passwords,
                                    [user_id |-> user_id,
                                     password_hash |-> hash_password(user_data.password)])
                    ELSE user_passwords
             /\ users' = insert_one(users, user_doc)
             /\ user_sessions' = insert_one(user_sessions, SessionDoc(user_id, session_token))
             /\ next' = [next EXCEPT !.user = user_id, !.token = session_token]
             /\ resp' = Call("register", Request(NoId, NoId), NoId, user_data, 200,
                             [user_id |-> user_id, session_token |-> session_token,
                              name |-> user_data.name])
             /\ UNCHANGED <<follows, rides, ride_requests, now, tasks>>

password_rejected_when_stored(password_doc, credentials) ==
    /\ password_doc # None
    /\ ~verify_password(credentials.password, password_doc.password_hash)

\* not password_doc or not verify_password(...)
password_rejected(password_doc, credentials) ==
    \/ password_doc = None
    \/ ~verify_password(credentials.password, password_doc.password_hash)

login(credentials) ==
    LET user == IF credentials.email # NoId
                THEN find_one(users, [email |-> {credentials.email}])
                ELSE IF credentials.phone # NoId
                THEN find_one(users, [phone |-> {credentials.phone}])
                ELSE None
        password_doc == find_one(user_passwords, [user_id |-> {user.user_id}])
        session_token == create_session_token
    IN  IF user = None
        THEN /\ resp' = Call("login", Request(NoId, NoId), NoId, credentials, 401,
                             "Invalid credentials")
             /\ UNCHANGED <<db, now, next, tasks>>
        ELSE IF password_rejected(password_doc, credentials)
        THEN /\ resp' = Call("login", Request(NoId, NoId), NoId, credentials, 401,
                             "Invalid credentials")
             /\ UNCHANGED <<db, now, next, tasks>>
        ELSE /\ next.token < MaxTokens
             /\ user_sessions' = insert_one(user_sessions,
                                            SessionDoc(user.user_id, session_token))
             /\ next' = [next EXCEPT !.token = session_token]
             /\ resp' = Call("login", Request(NoId, NoId), NoId, credentials, 200,
                             [user_id |-> user.user_id, session_token |-> session_token,
                              name |-> user.name])
             /\ UNCHANGED <<users, user_passwords, follows, rides, ride_requests, now, tasks>>

guest_login ==
    /\ count_documents(users, [auth_type |-> {"guest"}]) < MaxGuests
    /\ next.token < MaxTokens
    /\ LET user_id == next.user + 1
           guest_num == count_documents(users, [auth_type |-> {"guest"}]) + 1
           session_token == create_session_token
       IN  /\ users' = insert_one(users,
                   UserDoc(user_id, NoId, <<"Guest User", guest_num>>, "guest", now))
           /\ user_sessions' = insert_one(user_sessions, SessionDoc(user_id, session_token))
           /\ next' = [next EXCEPT !.user = user_id, !.token = session_token]
           /\ resp' = Call("guest_login", Request(NoId, NoId), NoId, "none", 200,
                           [user_id |-> user_id, session_token |-> session_token])
    /\ UNCHANGED <<user_passwords, follows, rides, ride_requests, now, tasks>>

existing_user_never(user_data) == None

\* db.users.find_one({"email": user_data["email"]})
existing_user_of(user_data) == find_one(users, [email |-> {user_data.email}])

\* session_id is the body's field; user_data is what the identity service
\* answers for it, None when its status is not 200.
google_callback(session_id, user_data) ==
    LET existing_user == existing_user_of(user_data)
        user_id == IF existing_user # None THEN existing_user.user_id ELSE next.user + 1
        user_doc == [UserDoc(user_id, user_data.email, user_data.name, "google", now)
                        EXCEPT !.profile_picture = user_data.picture]
        session_token == user_data.session_token
    IN  IF session_id = NoId
        THEN /\ resp' = Call("google_callback", Request(NoId, NoId), session_id, user_data,
                             400, "session_id required")
             /\ UNCHANGED <<db, now, next, tasks>>
        ELSE IF user_data = None
        THEN /\ resp' = Call("google_callback", Request(NoId, NoId), session_id, user_data,
                             401, "Invalid session")
             /\ UNCHANGED <<db, now, next, tasks>>
        ELSE /\ next.callback < MaxCallbacks
             /\ users' = IF existing_user # None THEN users ELSE insert_one(users, user_doc)
             /\ user_sessions' = insert_one(user_sessions, SessionDoc(user_id, session_token))
             /\ next' = [next EXCEPT !.user = IF existing_user # None THEN @ ELSE user_id,
                                     !.callback = @ + 1]
             /\ resp' = Call("google_callback", Request(NoId, NoId), session_id, user_data,
                             200, [user_id |-> user_id, session_token |-> session_token,
                                   name |-> user_data.name])
             /\ UNCHANGED <<user_passwords, follows, rides, ride_requests, now, tasks>>

get_me(request) ==
    /\ LET user == get_current_user(request)
       IN  resp' = IF user = None
                   THEN Call("get_me", request, NoId, "none", 401, "Not authenticated")
                   ELSE Call("get_me", request, NoId, "none", 200, user)
    /\ UNCHANGED <<db, now, next, tasks>>

logout(request) ==
    /\ LET session_token == extract_token(request)
       IN  user_sessions' =
               IF session_token # NoId
               THEN delete_one(user_sessions, [session_token |-> {session_token}])
               ELSE user_sessions
    /\ resp' = Call("logout", request, NoId, "none", 200, "Logged out")
    /\ UNCHANGED <<user_passwords, users, follows, rides, ride_requests, now, next, tasks>>

\* Time passes between requests.
Tick ==
    /\ now < MaxNow
    /\ now' = now + 1
    /\ UNCHANGED <<db, next, resp, tasks>>

(***************************************************************************)
(* USER ENDPOINTS                                                          *)
(***************************************************************************)
update_profile(request, update_data) ==
    LET user == get_current_user(request)
        update_dict == update_dict_of(update_data)
        updated == IF DOMAIN update_dict # {}
                   THEN set_one(users, [user_id |-> {user.user_id}], update_dict)
                   ELSE users
    IN  IF user = None THEN Unauthorized("update_profile", request, NoId, update_data)
        ELSE /\ users' = updated
             /\ resp' = Call("update_profile", request, NoId, update_data, 200,
                             find_one(updated, [user_id |-> {user.user_id}]))
             /\ UNCHANGED <<user_passwords, user_sessions, follows, rides,
                            ride_requests, now, next, tasks>>

\* The limited info returned for a private profile.
limited_info(user_obj) ==
    [user_id |-> user_obj.user_id, name |-> user_obj.name,
     profile_picture |-> user_obj.profile_picture,
     profile_type |-> user_obj.profile_type, is_public |-> user_obj.is_public,
     is_private |-> TRUE]

get_user(request, user_id) ==
    LET current_user == get_current_user(request)
        user == find_one(users, [user_id |-> {user_id}])
        follow == find_one(follows, [follower_id |-> {current_user.user_id},
                                     following_id |-> {user_id},
                                     status |-> {"accepted"}])
    IN  /\ resp' = IF user = None
                   THEN Call("get_user", request, user_id, "none", 404, "User not found")
                   ELSE IF /\ ~user.is_public /\ current_user # None
                           /\ follow = None /\ current_user.user_id # user_id
                   THEN Call("get_user", request, user_id, "none", 200, limited_info(user))
                   ELSE Call("get_user", request, user_id, "none", 200, user)
        /\ UNCHANGED <<db, now, next, tasks>>

(***************************************************************************)
(* FOLLOW ENDPOINTS                                                        *)
(***************************************************************************)
new_status_of_unless_reject(action) == IF action = "reject" THEN "rejected" ELSE "accepted"

\* "accepted" if action == "accept" else "rejected"
new_status_of(action) == IF action = "accept" THEN "accepted" ELSE "rejected"

initial_follow_status_pending(target_user) == "pending"

\* "accepted" if target_is_public else "pending"
initial_follow_status(target_user) ==
    IF target_user.is_public THEN "accepted" ELSE "pending"

existing_follow_unless_rejected(follower_id, following_id) ==
    [follower_id |-> {follower_id}, following_id |-> {following_id},
     status |-> {"pending", "accepted"}]

existing_follow_accepted_only(follower_id, following_id) ==
    [follower_id |-> {follower_id}, following_id |-> {following_id},
     status |-> {"accepted"}]

\* {"follower_id": user.user_id, "following_id": follow_req.following_id}
existing_follow(follower_id, following_id) ==
    [follower_id |-> {follower_id}, following_id |-> {following_id}]

existing_status_by_visibility(existing, target_user) == initial_follow_status(target_user)

\* existing["status"]: the stored status, whatever the target's visibility is now.
existing_status(existing, target_user) == existing.status

follow_user(request, following_id) ==
    LET user == get_current_user(request)
        target_user == find_one(users, [user_id |-> {following_id}])
        existing == find_one(follows, existing_follow(user.user_id, following_id))
        follow_id == next.follow + 1
        follow_doc == [follow_id |-> follow_id, follower_id |-> user.user_id,
                       following_id |-> following_id,
                       status |-> initial_follow_status(target_user),
                       created_at |-> now]
    IN  IF user = None THEN Unauthorized("follow_user", request, following_id, "none")
        ELSE IF user.user_id = following_id
        THEN /\ resp' = Call("follow_user", request, following_id, "none", 400,
                             "Cannot follow yourself")
             /\ UNCHANGED <<db, now, next, tasks>>
        ELSE IF target_user = None
        THEN /\ resp' = Call("follow_user", request, following_id, "none", 404,
                             "User not found")
             /\ UNCHANGED <<db, now, next, tasks>>
        ELSE IF existing # None
        THEN /\ resp' = Call("follow_user", request, following_id, "none", 200,
                             [message |-> "Already following or request pending",
                              status |-> existing_status(existing, target_user)])
             /\ UNCHANGED <<db, now, next, tasks>>
        ELSE /\ next.follow < MaxFollows
             /\ follows' = insert_one(follows, follow_doc)
             /\ next' = [next EXCEPT !.follow = follow_id]
             /\ resp' = Call("follow_user", request, following_id, "none", 200,
                             [message |-> IF target_user.is_public THEN "Now following"
                                          ELSE "Follow request sent",
                              status |-> follow_doc.status])
             /\ UNCHANGED <<user_passwords, users, user_sessions, rides,
                            ride_requests, now, tasks>>

unfollow_filter_accepted_only(follower_id, following_id) ==
    [follower_id |-> {follower_id}, following_id |-> {following_id},
     status |-> {"accepted"}]

\* {"follower_id": user.user_id, "following_id": user_id}
unfollow_filter(follower_id, following_id) ==
    [follower_id |-> {follower_id}, following_id |-> {following_id}]

unfollow_user(request, user_id) ==
    LET user == get_current_user(request)
        edge == unfollow_filter(user.user_id, user_id)
    IN  IF user = None THEN Unauthorized("unfollow_user", request, user_id, "none")
        ELSE /\ follows' = delete_one(follows, edge)
             /\ resp' = IF deleted_count(follows, edge) = 0
                        THEN Call("unfollow_user", request, user_id, "none", 404,
                                  "Not following this user")
                        ELSE Call("unfollow_user", request, user_id, "none", 200, "Unfollowed")
             /\ UNCHANGED <<user_passwords, users, user_sessions, rides,
                            ride_requests, now, next, tasks>>

pending_request_any_status(follow_id, user) ==
    [follow_id |-> {follow_id}, following_id |-> {user.user_id}]

\* {"follow_id": follow_id, "following_id": user.user_id, "status": "pending"}
pending_request(follow_id, user) ==
    [follow_id |-> {follow_id}, following_id |-> {user.user_id}, status |-> {"pending"}]

respond_follow_request(request, follow_id, action) ==
    LET user == get_current_user(request)
        follow == find_one(follows, pending_request(follow_id, user))
        new_status == new_status_of(action)
    IN  IF user = None
        THEN Unauthorized("respond_follow_request", request, follow_id, action)
        ELSE IF follow = None
        THEN /\ resp' = Call("respond_follow_request", request, follow_id, action, 404,
                             "Follow request not found")
             /\ UNCHANGED <<db, now, next, tasks>>
        ELSE /\ follows' = set_one(follows, [follow_id |-> {follow_id}],
                                   [status |-> new_status])
             /\ resp' = Call("respond_follow_request", request, follow_id, action, 200,
                             new_status)
             /\ UNCHANGED <<user_passwords, users, user_sessions, rides,
                            ride_requests, now, next, tasks>>

is_following_unless_rejected(follow) == follow.status # "rejected"

\* follow["status"] == "accepted"
is_following(follow) == follow.status = "accepted"

\* The body of get_follow_status's answer; a null status is "None".
follow_status(request, user_id) ==
    LET current_user == get_current_user(request)
        follow == find_one(follows, [follower_id |-> {current_user.user_id},
                                     following_id |-> {user_id}])
    IN  IF current_user = None THEN [is_following |-> FALSE, status |-> "None"]
        ELSE IF follow = None THEN [is_following |-> FALSE, status |-> "None"]
        ELSE [is_following |-> is_following(follow), status |-> follow.status]

get_follow_status(request, user_id) ==
    /\ resp' = Call("get_follow_status", request, user_id, "none", 200,
                    follow_status(request, user_id))
    /\ UNCHANGED <<db, now, next, tasks>>

(***************************************************************************)
(* RIDE ENDPOINTS.  A ride document keeps the fields the handlers read or  *)
(* write (ride_id, user_id, available_seats, status, created_at); origin,  *)
(* destination, date_time, price, car_details, preferences and ride_type   *)
(* are payload no handler branches on.                                     *)
(***************************************************************************)
create_ride(request, available_seats) ==
    LET user == get_current_user(request)
        ride_id == next.ride + 1
        ride_doc == [ride_id |-> ride_id, user_id |-> user.user_id,
                     available_seats |-> available_seats, status |-> "active",
                     created_at |-> now]
    IN  IF user = None THEN Unauthorized("create_ride", request, NoId, "none")
        ELSE /\ next.ride < MaxRides
             /\ rides' = insert_one(rides, ride_doc)
             /\ next' = [next EXCEPT !.ride = ride_id]
             /\ resp' = Call("create_ride", request, ride_id, "none", 200, ride_doc)
             /\ UNCHANGED <<user_passwords, users, user_sessions, follows,
                            ride_requests, now, tasks>>

owns_ride_anyone(ride, user) == TRUE

\* not (ride["user_id"] != user.user_id)
owns_ride(ride, user) == ride.user_id = user.user_id

update_ride(request, ride_id, update_data) ==
    LET user == get_current_user(request)
        ride == find_one(rides, [ride_id |-> {ride_id}])
        update_dict == update_dict_of(update_data)
        updated == IF DOMAIN update_dict # {}
                   THEN set_one(rides, [ride_id |-> {ride_id}], update_dict)
                   ELSE rides
    IN  IF user = None THEN Unauthorized("update_ride", request, ride_id, update_data)
        ELSE /\ IF ride = None
                THEN /\ resp' = Call("update_ride", request, ride_id, update_data,
                                     404, "Ride not found")
                     /\ rides' = rides
                ELSE IF ~owns_ride(ride, user)
                THEN /\ resp' = Call("update_ride", request, ride_id, update_data,
                                     403, "Not authorized")
                     /\ rides' = rides
                ELSE /\ rides' = updated
                     /\ resp' = Call("update_ride", request, ride_id, update_data, 200,
                                     find_one(updated, [ride_id |-> {ride_id}]))
             /\ UNCHANGED <<user_passwords, users, user_sessions, follows,
                            ride_requests, now, next, tasks>>

delete_ride(request, ride_id) ==
    LET user == get_current_user(request)
        ride == find_one(rides, [ride_id |-> {ride_id}])
    IN  IF user = None THEN Unauthorized("delete_ride", request, ride_id, "none")
        ELSE /\ IF ride = None
                THEN /\ resp' = Call("delete_ride", request, ride_id, "none",
                                     404, "Ride not found")
                     /\ rides' = rides
                ELSE IF ~owns_ride(ride, user)
                THEN /\ resp' = Call("delete_ride", request, ride_id, "none",
                                     403, "Not authorized")
                     /\ rides' = rides
                ELSE /\ rides' = delete_one(rides, [ride_id |-> {ride_id}])
                     /\ resp' = Call("delete_ride", request, ride_id, "none",
                                     200, "Ride deleted")
             /\ UNCHANGED <<user_passwords, users, user_sessions, follows,
                            ride_requests, now, next, tasks>>

(***************************************************************************)
(* RIDE REQUEST ENDPOINTS                                                  *)
(***************************************************************************)
blocks_new_request_pending_only(ride_id, user_id) ==
    [ride_id |-> {ride_id}, requester_id |-> {user_id}, status |-> {"pending"}]

\* {"ride_id": ..., "requester_id": ..., "status": {"$in": ["pending", "accepted"]}}
blocks_new_request(ride_id, user_id) ==
    [ride_id |-> {ride_id}, requester_id |-> {user_id},
     status |-> {"pending", "accepted"}]

request_own_ride_allowed(ride, user) == FALSE

\* ride["user_id"] == user.user_id
request_own_ride(ride, user) == ride.user_id = user.user_id

\* max_requests bounds the request ids generated in the run.
request_ride_upto(request, ride_id, max_requests) ==
    LET user == get_current_user(request)
        ride == find_one(rides, [ride_id |-> {ride_id}])
        existing == find_one(ride_requests, blocks_new_request(ride_id, user.user_id))
        request_id == next.req + 1
        request_doc == [request_id |-> request_id, ride_id |-> ride_id,
                        requester_id |-> user.user_id, status |-> "pending",
                        created_at |-> now]
    IN  IF user = None THEN Unauthorized("request_ride", request, ride_id, "none")
        ELSE IF ride = None
        THEN /\ resp' = Call("request_ride", request, ride_id, "none", 404, "Ride not found")
             /\ UNCHANGED <<db, now, next, tasks>>
        ELSE IF request_own_ride(ride, user)
        THEN /\ resp' = Call("request_ride", request, ride_id, "none", 400,
                             "Cannot request your own ride")
             /\ UNCHANGED <<db, now, next, tasks>>
        ELSE IF existing # None
        THEN /\ resp' = Call("request_ride", request, ride_id, "none", 400,
                             "Already requested this ride")
             /\ UNCHANGED <<db, now, next, tasks>>
        ELSE /\ next.req < max_requests
             /\ ride_requests' = insert_one(ride_requests, request_doc)
             /\ next' = [next EXCEPT !.req = request_id]
             /\ resp' = Call("request_ride", request, ride_id, "none", 200, request_doc)
             /\ UNCHANGED <<user_passwords, users, user_sessions, follows,
                            rides, now, tasks>>

request_ride(request, ride_id) == request_ride_upto(request, ride_id, MaxRequests)

\* to_list(100)
ToListLength == 100

get_received_requests(request) ==
    LET user == get_current_user(request)
        my_rides == to_list(find(rides, [user_id |-> {user.user_id}]), ToListLength)
        ride_ids == {my_rides[i].ride_id : i \in 1..Len(my_rides)}
        requests == to_list(sort_created_at_desc(
                                find(ride_requests, [ride_id |-> ride_ids])),
                            ToListLength)
        result == [i \in 1..Len(requests) |->
                    requests[i] @@
                    [requester |-> find_one(users, [user_id |-> {requests[i].requester_id}]),
                     ride |-> find_one(rides, [ride_id |-> {requests[i].ride_id}])]]
    IN  IF user = None THEN Unauthorized("get_received_requests", request, NoId, "none")
        ELSE /\ resp' = Call("get_received_requests", request, NoId, "none", 200,
                             IF ride_ids = {} THEN << >> ELSE result)
             /\ UNCHANGED <<db, now, next, tasks>>

may_respond_anyone(ride, user) == ride # None

\* not (not ride or ride["user_id"] != user.user_id)
may_respond(ride, user) == ride # None /\ ride.user_id = user.user_id

takes_seat_always(new_status, ride) == new_status = "accepted"

\* new_status == "accepted" and ride["available_seats"] > 0
takes_seat(new_status, ride) == new_status = "accepted" /\ ride.available_seats > 0

respond_ride_request(request, request_id, action) ==
    LET user == get_current_user(request)
        ride_request == find_one(ride_requests, [request_id |-> {request_id}])
        ride == find_one(rides, [ride_id |-> {ride_request.ride_id}])
        new_status == new_status_of(action)
    IN  IF user = None
        THEN Unauthorized("respond_ride_request", request, request_id, action)
        ELSE IF ride_request = None
        THEN /\ resp' = Call("respond_ride_request", request, request_id, action,
                             404, "Request not found")
             /\ UNCHANGED <<db, now, next, tasks>>
        ELSE IF ~may_respond(ride, user)
        THEN /\ resp' = Call("respond_ride_request", request, request_id, action,
                             403, "Not authorized")
             /\ UNCHANGED <<db, now, next, tasks>>
        ELSE /\ ride_requests' = set_one(ride_requests, [request_id |-> {request_id}],
                                         [status |-> new_status])
             /\ rides' = IF takes_seat(new_status, ride)
                         THEN inc_one(rides, [ride_id |-> {ride_request.ride_id}],
                                      "available_seats", -1)
                         ELSE rides
             /\ resp' = Call("respond_ride_request", request, request_id, action,
                             200, new_status)
             /\ UNCHANGED <<user_passwords, users, user_sessions, follows,
                            now, next, tasks>>

(***************************************************************************)
(* The state after the users 1..n have registered at time 0: user u holds  *)
(* the session token u.                                                    *)
(***************************************************************************)
RegisteredUsers(n) == [u \in 1..n |-> UserDoc(u, u, <<"User", u>>, "email", 0)]

RegisteredSessions(n) ==
    [u \in 1..n |->
        [user_id |-> u, session_token |-> u, expires_at |-> SessionTTL, created_at |-> 0]]

\* User u registered with the password u.
RegisteredPasswords(n) ==
    [u \in 1..n |-> [user_id |-> u, password_hash |-> hash_password(u)]]

\* The same store t days after the registrations.
InitStoreAt(n, t) ==
    /\ users = RegisteredUsers(n)
    /\ user_sessions = RegisteredSessions(n)
    /\ user_passwords = RegisteredPasswords(n)
    /\ follows = << >>
    /\ rides = << >>
    /\ ride_requests = << >>
    /\ now = t
    /\ next = [user |-> n, token |-> n, follow |-> 0, ride |-> 0, req |-> 0,
               callback |-> 0]
    /\ resp = NoCall
    /\ tasks = << >>

InitStore(n) == InitStoreAt(n, 0)

\* The tokens a client may present: every token the model can issue.
Tokens == 1..MaxTokens

\* Requests that carry a cookie, a header, both or neither.
SessionRequests ==
    {Request(c, NoId) : c \in Tokens \cup {NoId}} \cup {Request(NoId, b) : b \in Tokens}

(***************************************************************************)
(* Sessions: issue, expiry, revocation.                                    *)
(***************************************************************************)
NextSession ==
    \/ Tick
    \/ guest_login
    \/ \E request \in SessionRequests : get_me(request)
    \/ \E request \in SessionRequests : logout(request)

InitSession == InitStore(Cardinality(Riders))

SpecSession == InitSession /\ [][NextSession]_vars

(***************************************************************************)
(* Sessions presented in a cookie and in an Authorization header at once.  *)
(***************************************************************************)
\* Requests that carry any token, or none, in the cookie and in the header.
TokenRequests == {Request(c, b) : c \in Tokens \cup {NoId}, b \in Tokens \cup {NoId}}

NextToken ==
    \/ Tick
    \/ guest_login
    \/ \E request \in TokenRequests : get_me(request)
    \/ \E request \in TokenRequests : logout(request)

InitToken == InitStore(Cardinality(Followers))

SpecToken == InitToken /\ [][NextToken]_vars

(***************************************************************************)
(* Rides and ride requests, each handler one atomic step.  Every           *)
(* registered user calls with the cookie of the session in hand.           *)
(***************************************************************************)
Callers(U) == {Request(c, NoId) : c \in U}

RideIds == 1..MaxRides

RequestIds == 1..MaxRequests

SeatPatches == {[available_seats |-> << >>, status |-> << >>]}
                \cup {[available_seats |-> <<n>>, status |-> << >>] : n \in 0..MaxSeats}

Actions == {"accept", "reject"}

NextRide ==
    \/ \E request \in Callers(Riders), n \in 0..MaxSeats : create_ride(request, n)
    \/ \E request \in Callers(Riders), ride_id \in RideIds, update_data \in SeatPatches :
            update_ride(request, ride_id, update_data)
    \/ \E request \in Callers(Riders), ride_id \in RideIds : delete_ride(request, ride_id)
    \/ \E request \in Callers(Riders), ride_id \in RideIds : request_ride(request, ride_id)
    \/ \E request \in Callers(Riders), request_id \in RequestIds, action \in Actions :
            respond_ride_request(request, request_id, action)

InitRide == InitStore(Cardinality(Riders))

SpecRide == InitRide /\ [][NextRide]_vars

(***************************************************************************)
(* The follow graph, each handler one atomic step.                         *)
(***************************************************************************)
FollowIds == 1..MaxFollows

NoPatch == [name |-> << >>, bio |-> << >>, profile_picture |-> << >>,
            profile_type |-> << >>, is_public |-> << >>]

VisibilityPatches == {[NoPatch EXCEPT !.is_public = <<b>>] : b \in BOOLEAN}

NextFollow ==
    \/ \E request \in Callers(Followers), update_data \in VisibilityPatches :
            update_profile(request, update_data)
    \/ \E request \in Callers(Followers), user_id \in Followers : follow_user(request, user_id)
    \/ \E request \in Callers(Followers), user_id \in Followers : unfollow_user(request, user_id)
    \/ \E request \in Callers(Followers), follow_id \in FollowIds, action \in Actions :
            respond_follow_request(request, follow_id, action)
    \/ \E request \in Callers(Followers), user_id \in Followers : get_follow_status(request, user_id)

InitFollow == InitStore(Cardinality(Followers))

SpecFollow == InitFollow /\ [][NextFollow]_vars

(***************************************************************************)
(* Two users who change their visibility, follow each other, offer rides   *)
(* and request them, each handler one atomic step.                         *)
(***************************************************************************)
NextSelf ==
    \/ \E request \in Callers(Followers), update_data \in VisibilityPatches :
            update_profile(request, update_data)
    \/ \E request \in Callers(Followers), user_id \in Followers : follow_user(request, user_id)
    \/ \E request \in Callers(Followers) : create_ride(request, MaxSeats)
    \/ \E request \in Callers(Followers), ride_id \in RideIds : delete_ride(request, ride_id)
    \/ \E request \in Callers(Followers), ride_id \in RideIds : request_ride(request, ride_id)

InitSelf == InitStore(Cardinality(Followers))

SpecSelf == InitSelf /\ [][NextSelf]_vars

(***************************************************************************)
(* Profiles viewed by the two users and by a caller without a session,     *)
(* while the users change visibility and follow each other.                *)
(***************************************************************************)
Viewers == Callers(Followers) \cup {Request(NoId, NoId)}

NextView ==
    \/ \E request \in Callers(Followers), update_data \in VisibilityPatches :
            update_profile(request, update_data)
    \/ \E request \in Callers(Followers), user_id \in Followers : follow_user(request, user_id)
    \/ \E request \in Callers(Followers), user_id \in Followers : unfollow_user(request, user_id)
    \/ \E request \in Callers(Followers), follow_id \in FollowIds, action \in Actions :
            respond_follow_request(request, follow_id, action)
    \/ \E request \in Viewers, user_id \in Followers : get_user(request, user_id)

InitView == InitStore(Cardinality(Followers))

SpecView == InitView /\ [][NextView]_vars

(***************************************************************************)
(* Accounts and sessions from an empty store: register, login, guest       *)
(* login and the external-identity callback issue sessions, logout revokes *)
(* them.                                                                   *)
(***************************************************************************)
Emails == {1}

Passwords == {1, 2}

\* The user with email e registers with the password e.
Registrations ==
    {[email |-> e, phone |-> NoId, password |-> e, name |-> <<"User", e>>,
      auth_type |-> "email"] : e \in Emails}

Logins == {[email |-> e, phone |-> NoId, password |-> p] : e \in Emails, p \in Passwords}

\* The sessions the identity service holds, one per email; a session_id it
\* does not know is answered with a status other than 200.
ExternalSessions == Emails

UnknownSession == Cardinality(Emails) + 1

\* The service answers the same session_id with the same data, whose
\* session_token is a value of its own making.
session_data(session_id) ==
    IF session_id \in ExternalSessions
    THEN [email |-> session_id, name |-> <<"User", session_id>>, picture |-> NoId,
          session_token |-> MaxTokens + session_id]
    ELSE None

ExternalTokens == {session_data(s).session_token : s \in ExternalSessions}

AuthRequests == {Request(c, NoId) : c \in Tokens \cup ExternalTokens \cup {NoId}}

NextAuth ==
    \/ \E user_data \in Registrations : register(user_data)
    \/ \E credentials \in Logins : login(credentials)
    \/ guest_login
    \/ \E session_id \in ExternalSessions \cup {NoId, UnknownSession} :
            google_callback(session_id, session_data(session_id))
    \/ \E request \in AuthRequests : get_me(request)
    \/ \E request \in AuthRequests : logout(request)

InitAuth == InitStore(0)

SpecAuth == InitAuth /\ [][NextAuth]_vars

(***************************************************************************)
(* The identity registry: registration by email or phone, with or without  *)
(* a stored credential, login by email or phone, the external-identity    *)
(* callback for an email, and profile updates by the users so created.     *)
(***************************************************************************)
RegistryEmails == {1, 2}

RegistryPhones == {1}

UserCreate(email, phone, password, auth_type) ==
    [email |-> email, phone |-> phone, password |-> password,
     name |-> <<"User", email, phone>>, auth_type |-> auth_type]

\* Bodies of POST /auth/register: an email account with a password, an email
\* account without one, a phone account (whose password is not stored), and
\* an email account that also gives the phone.
RegistryRegistrations ==
    {UserCreate(1, NoId, 1, "email"),
     UserCreate(2, NoId, NoId, "email"),
     UserCreate(NoId, 1, 1, "phone"),
     UserCreate(2, 1, 2, "email")}

RegistryLogins ==
    {[email |-> e, phone |-> p, password |-> w] :
        e \in RegistryEmails \cup {NoId}, p \in RegistryPhones \cup {NoId},
        w \in Passwords}

\* PUT /users/me with a new name and nothing else.
NewName == <<"Renamed", 0>>

Rename == [NoPatch EXCEPT !.name = <<NewName>>]

NextRegistry ==
    \/ \E user_data \in RegistryRegistrations : register(user_data)
    \/ \E credentials \in RegistryLogins : login(credentials)
    \/ \E session_id \in ExternalSessions :
            google_callback(session_id, session_data(session_id))
    \/ \E request \in Callers(Tokens) : update_profile(request, Rename)

InitRegistry == InitStore(0)

SpecRegistry == InitRegistry /\ [][NextRegistry]_vars

(***************************************************************************)
(* Two users register, one offers a ride with three seats, the other       *)
(* requests it, the owner looks at the requests received and answers.      *)
(***************************************************************************)
\* "available_seats": 3 of the test's ride
TestSeats == 3

JourneyRegistrations == {UserCreate(e, NoId, e, "email") : e \in RegistryEmails}

\* The cookies of the sessions the two registrations return.
JourneyCallers == Callers(1..Cardinality(RegistryEmails))

NextJourney ==
    \/ \E user_data \in JourneyRegistrations : register(user_data)
    \/ \E request \in JourneyCallers : create_ride(request, TestSeats)
    \/ \E request \in JourneyCallers, ride_id \in RideIds : request_ride(request, ride_id)
    \/ \E request \in JourneyCallers : get_received_requests(request)
    \/ \E request \in JourneyCallers, request_id \in RequestIds, action \in Actions :
            respond_ride_request(request, request_id, action)

InitJourney == InitStore(0)

SpecJourney == InitJourney /\ [][NextJourney]_vars

(***************************************************************************)
(* One owner's inbox filling up: user 1 offers a ride, user 2 requests it  *)
(* again each time user 1 has rejected the last request, and both look at  *)
(* the requests they have received.                                        *)
(***************************************************************************)
Owner == Request(1, NoId)

Requester == Request(2, NoId)

NextInbox ==
    \/ create_ride(Owner, MaxSeats)
    \/ \E ride_id \in RideIds : request_ride_upto(Requester, ride_id, MaxInbox)
    \/ respond_ride_request(Owner, next.req, "reject")
    \/ \E request \in {Owner, Requester} : get_received_requests(request)

InitInbox == InitStore(Cardinality(Followers))

SpecInbox == InitInbox /\ [][NextInbox]_vars

(***************************************************************************)
(* Profile updates: user 1, and a caller without a session, send every     *)
(* combination of present and absent fields, while user 2 follows user 1   *)
(* and offers a ride.                                                      *)
(***************************************************************************)
\* Bodies of PUT /users/me: each field absent or carrying a new value.
ProfilePatches ==
    [name : {<< >>, <<NewName>>}, bio : {<< >>, <<1>>},
     profile_picture : {<< >>, <<1>>}, profile_type : {<< >>, <<"rider">>},
     is_public : {<< >>, <<FALSE>>}]

NextProfile ==
    \/ \E request \in {Owner, Request(NoId, NoId)}, update_data \in ProfilePatches :
            update_profile(request, update_data)
    \/ \E user_id \in Followers : follow_user(Requester, user_id)
    \/ create_ride(Requester, MaxSeats)

InitProfile == InitStore(Cardinality(Followers))

SpecProfile == InitProfile /\ [][NextProfile]_vars

(***************************************************************************)
(* The write endpoints called with no token, with a token never issued    *)
(* (in the cookie or in the header), and with the token of user 1, which   *)
(* works until it is logged out or expires.  User 2 follows user 1 and     *)
(* requests the ride, so that there is something to answer.                *)
(***************************************************************************)
\* A token no session was ever issued with.
UnknownToken == MaxTokens

\* PUT /users/me making the profile private.
Private == [NoPatch EXCEPT !.is_public = <<FALSE>>]

\* PUT /rides/{ride_id} declaring the ride full.
NoSeats == [available_seats |-> <<0>>, status |-> << >>]

GuardCallers ==
    {Request(NoId, NoId), Request(UnknownToken, NoId), Request(NoId, UnknownToken),
     Request(1, NoId)}

NextGuard ==
    \/ Tick
    \/ logout(Request(1, NoId))
    \/ \E request \in GuardCallers : update_profile(request, Private)
    \/ \E request \in GuardCallers : follow_user(request, 1)
    \/ \E request \in GuardCallers : unfollow_user(request, 1)
    \/ \E request \in GuardCallers : respond_follow_request(request, 1, "accept")
    \/ \E request \in GuardCallers : create_ride(request, MaxSeats)
    \/ \E request \in GuardCallers, ride_id \in RideIds :
            update_ride(request, ride_id, NoSeats)
    \/ \E request \in GuardCallers, ride_id \in RideIds : delete_ride(request, ride_id)
    \/ \E request \in GuardCallers, ride_id \in RideIds : request_ride(request, ride_id)
    \/ \E request \in GuardCallers : respond_ride_request(request, 1, "accept")
    \/ follow_user(Requester, 1)
    \/ \E ride_id \in RideIds : request_ride(Requester, ride_id)

\* The day before the two registered sessions expire.
InitGuard == InitStoreAt(Cardinality(Followers), SessionTTL - 1)

SpecGuard == InitGuard /\ [][NextGuard]_vars

(***************************************************************************)
(* follow_user served concurrently: each await of the handler (the two     *)
(* reads of get_current_user, the read of the target, the read of the      *)
(* existing edge, the insert) is one step of a task, and the steps of      *)
(* different tasks interleave.  A task keeps the handler's locals.         *)
(***************************************************************************)
MaxTasks == 2       \* follow calls in flight at a time

Task(request, following_id) ==
    [op |-> "follow_user", pc |-> "find_session", request |-> request,
     arg |-> following_id, session |-> None, user |-> None, target_user |-> None]

Remove(seq, i) == [j \in 1..(Len(seq) - 1) |-> IF j < i THEN seq[j] ELSE seq[j + 1]]

\* The handler of task t returns or raises: its response goes out.
Return(t, code, out) ==
    /\ resp' = Call(tasks[t].op, tasks[t].request, tasks[t].arg, "none", code, out)
    /\ tasks' = Remove(tasks, t)

\* The request arrives and its handler starts.
follow_user_called(request, following_id) ==
    /\ Len(tasks) < MaxTasks
    /\ tasks' = Append(tasks, Task(request, following_id))
    /\ UNCHANGED <<db, now, next, resp>>

\* get_current_user up to its first await: the session row is read and checked.
follow_user_find_session(t) ==
    /\ tasks[t].pc = "find_session"
    /\ LET session_token == extract_token(tasks[t].request)
           session == find_one(user_sessions, [session_token |-> {session_token}])
       IN  IF session_token = NoId \/ session = None \/ session_expired(session)
           THEN Return(t, 401, "Not authenticated")
           ELSE /\ tasks' = [tasks EXCEPT ![t].pc = "find_user", ![t].session = session]
                /\ resp' = resp
    /\ UNCHANGED <<db, now, next>>

\* get_current_user's second await, require_auth and the self-follow check.
follow_user_find_user(t) ==
    /\ tasks[t].pc = "find_user"
    /\ LET user == find_one(users, [user_id |-> {tasks[t].session.user_id}])
       IN  IF user = None THEN Return(t, 401, "Not authenticated")
           ELSE IF user.user_id = tasks[t].arg
           THEN Return(t, 400, "Cannot follow yourself")
           ELSE /\ tasks' = [tasks EXCEPT ![t].pc = "find_target", ![t].user = user]
                /\ resp' = resp
    /\ UNCHANGED <<db, now, next>>

follow_user_find_target(t) ==
    /\ tasks[t].pc = "find_target"
    /\ LET target_user == find_one(users, [user_id |-> {tasks[t].arg}])
       IN  IF target_user = None THEN Return(t, 404, "User not found")
           ELSE /\ tasks' = [tasks EXCEPT ![t].pc = "find_existing",
                                          ![t].target_user = target_user]
                /\ resp' = resp
    /\ UNCHANGED <<db, now, next>>

follow_user_find_existing(t) ==
    /\ tasks[t].pc = "find_existing"
    /\ LET existing == find_one(follows,
                                existing_follow(tasks[t].user.user_id, tasks[t].arg))
       IN  IF existing # None
           THEN Return(t, 200, [message |-> "Already following or request pending",
                                status |-> existing.status])
           ELSE /\ tasks' = [tasks EXCEPT ![t].pc = "insert"]
                /\ resp' = resp
    /\ UNCHANGED <<db, now, next>>

follow_user_insert(t) ==
    /\ tasks[t].pc = "insert"
    /\ next.follow < MaxFollows
    /\ LET follow_id == next.follow + 1
           follow_doc == [follow_id |-> follow_id,
                          follower_id |-> tasks[t].user.user_id,
                          following_id |-> tasks[t].arg,
                          status |-> initial_follow_status(tasks[t].target_user),
                          created_at |-> now]
       IN  /\ follows' = insert_one(follows, follow_doc)
           /\ next' = [next EXCEPT !.follow = follow_id]
           /\ Return(t, 200, [message |-> IF tasks[t].target_user.is_public
                                          THEN "Now following" ELSE "Follow request sent",
                              status |-> follow_doc.status])
    /\ UNCHANGED <<user_passwords, users, user_sessions, rides, ride_requests, now>>

InitFollowConc == InitStore(Cardinality(Followers))

NextFollowConc ==
    \/ \E request \in Callers(Followers), user_id \in Followers :
            follow_user_called(request, user_id)
    \/ \E t \in 1..Len(tasks) : follow_user_find_session(t)
    \/ \E t \in 1..Len(tasks) : follow_user_find_user(t)
    \/ \E t \in 1..Len(tasks) : follow_user_find_target(t)
    \/ \E t \in 1..Len(tasks) : follow_user_find_existing(t)
    \/ \E t \in 1..Len(tasks) : follow_user_insert(t)

SpecFollowConc == InitFollowConc /\ [][NextFollowConc]_vars

(***************************************************************************)
(* Handlers served concurrently, in general: a task is a handler in        *)
(* flight with its locals; each await of the handler is one step.          *)
(***************************************************************************)
HandlerTask(op, request, arg, action) ==
    [op |-> op, pc |-> "auth_session", request |-> request, arg |-> arg,
     action |-> action, session |-> None, user |-> None, found |-> None,
     ride |-> None]

\* The handler of task t returns or raises: its response goes out.
Answer(t, code, out) ==
    /\ resp' = Call(tasks[t].op, tasks[t].request, tasks[t].arg, tasks[t].action,
                    code, out)
    /\ tasks' = Remove(tasks, t)

\* Task t moves on to its next await.
Goto(t, pc) == [tasks EXCEPT ![t].pc = pc]

\* get_current_user up to its first await: the session row is read and checked.
auth_find_session(t) ==
    /\ tasks[t].pc = "auth_session"
    /\ LET session_token == extract_token(tasks[t].request)
           session == find_one(user_sessions, [session_token |-> {session_token}])
       IN  IF session_token = NoId \/ session = None \/ session_expired(session)
           THEN Answer(t, 401, "Not authenticated")
           ELSE /\ tasks' = [Goto(t, "auth_user") EXCEPT ![t].session = session]
                /\ resp' = resp
    /\ UNCHANGED <<db, now, next>>

\* get_current_user's second await and require_auth.
auth_find_user(t) ==
    /\ tasks[t].pc = "auth_user"
    /\ LET user == find_one(users, [user_id |-> {tasks[t].session.user_id}])
       IN  IF user = None THEN Answer(t, 401, "Not authenticated")
           ELSE /\ tasks' = [Goto(t, "body") EXCEPT ![t].user = user]
                /\ resp' = resp
    /\ UNCHANGED <<db, now, next>>

(***************************************************************************)
(* respond_ride_request served concurrently: after require_auth, the read  *)
(* of the request, the read of the ride, the write of the status and the   *)
(* write of the seat count are four steps; the seat count is decided from  *)
(* the ride as it was read.                                                *)
(***************************************************************************)
respond_ride_request_called(request, request_id, action) ==
    /\ Len(tasks) < MaxTasks
    /\ tasks' = Append(tasks, HandlerTask("respond_ride_request", request, request_id,
                                          action))
    /\ UNCHANGED <<db, now, next, resp>>

respond_ride_request_find_request(t) ==
    /\ tasks[t].op = "respond_ride_request" /\ tasks[t].pc = "body"
    /\ LET ride_request == find_one(ride_requests, [request_id |-> {tasks[t].arg}])
       IN  IF ride_request = None THEN Answer(t, 404, "Request not found")
           ELSE /\ tasks' = [Goto(t, "find_ride") EXCEPT ![t].found = ride_request]
                /\ resp' = resp
    /\ UNCHANGED <<db, now, next>>

respond_ride_request_find_ride(t) ==
    /\ tasks[t].op = "respond_ride_request" /\ tasks[t].pc = "find_ride"
    /\ LET ride == find_one(rides, [ride_id |-> {tasks[t].found.ride_id}])
       IN  IF ~may_respond(ride, tasks[t].user) THEN Answer(t, 403, "Not authorized")
           ELSE /\ tasks' = [Goto(t, "set_status") EXCEPT ![t].ride = ride]
                /\ resp' = resp
    /\ UNCHANGED <<db, now, next>>

respond_ride_request_set_status(t) ==
    /\ tasks[t].op = "respond_ride_request" /\ tasks[t].pc = "set_status"
    /\ ride_requests' = set_one(ride_requests, [request_id |-> {tasks[t].arg}],
                                [status |-> new_status_of(tasks[t].action)])
    /\ IF takes_seat(new_status_of(tasks[t].action), tasks[t].ride)
       THEN tasks' = Goto(t, "inc") /\ resp' = resp
       ELSE Answer(t, 200, new_status_of(tasks[t].action))
    /\ UNCHANGED <<user_passwords, users, user_sessions, follows, rides, now, next>>

seat_update_read_modify_write(coll, ride_id, ride) ==
    set_one(coll, [ride_id |-> {ride_id}],
            [available_seats |-> ride.available_seats - 1])

\* {"$inc": {"available_seats": -1}} on the request's ride: the store
\* subtracts from the value it holds, not from the ride as it was read.
seat_update(coll, ride_id, ride) ==
    inc_one(coll, [ride_id |-> {ride_id}], "available_seats", -1)

respond_ride_request_inc(t) ==
    /\ tasks[t].op = "respond_ride_request" /\ tasks[t].pc = "inc"
    /\ rides' = seat_update(rides, tasks[t].found.ride_id, tasks[t].ride)
    /\ Answer(t, 200, new_status_of(tasks[t].action))
    /\ UNCHANGED <<user_passwords, users, user_sessions, follows, ride_requests,
                   now, next>>

\* No answer to the request is stored or in flight.
Unanswered(request_id) ==
    /\ find_one(ride_requests, [request_id |-> {request_id}, status |-> {"pending"}]) # None
    /\ \A t \in 1..Len(tasks) : tasks[t].arg # request_id

\* The owner (user 1) offers one ride, users 2 and 3 request it, and the
\* owner's accepts of different pending requests are served concurrently.
NextRespondConc ==
    \/ \E n \in 0..MaxSeats : create_ride(Owner, n)
    \/ \E request \in Callers({2, 3}), ride_id \in RideIds : request_ride(request, ride_id)
    \/ \E request_id \in RequestIds :
            Unanswered(request_id) /\ respond_ride_request_called(Owner, request_id, "accept")
    \/ \E t \in 1..Len(tasks) : auth_find_session(t)
    \/ \E t \in 1..Len(tasks) : auth_find_user(t)
    \/ \E t \in 1..Len(tasks) : respond_ride_request_find_request(t)
    \/ \E t \in 1..Len(tasks) : respond_ride_request_find_ride(t)
    \/ \E t \in 1..Len(tasks) : respond_ride_request_set_status(t)
    \/ \E t \in 1..Len(tasks) : respond_ride_request_inc(t)

InitRespondConc == InitStore(Cardinality(Riders))

SpecRespondConc == InitRespondConc /\ [][NextRespondConc]_vars

\* The same, on a ride that has a seat for each of the two requesters.
NextAcceptConc ==
    \/ create_ride(Owner, MaxSeats)
    \/ \E request \in Callers({2, 3}), ride_id \in RideIds : request_ride(request, ride_id)
    \/ \E request_id \in RequestIds :
            Unanswered(request_id) /\ respond_ride_request_called(Owner, request_id, "accept")
    \/ \E t \in 1..Len(tasks) : auth_find_session(t)
    \/ \E t \in 1..Len(tasks) : auth_find_user(t)
    \/ \E t \in 1..Len(tasks) : respond_ride_request_find_request(t)
    \/ \E t \in 1..Len(tasks) : respond_ride_request_find_ride(t)
    \/ \E t \in 1..Len(tasks) : respond_ride_request_set_status(t)
    \/ \E t \in 1..Len(tasks) : respond_ride_request_inc(t)

SpecAcceptConc == InitRespondConc /\ [][NextAcceptConc]_vars

(***************************************************************************)
(* respond_follow_request served concurrently: after require_auth, the     *)
(* read of the caller's pending edge and the write of its status are two   *)
(* steps; the write names the edge by follow_id alone.                     *)
(***************************************************************************)
respond_follow_request_called(request, follow_id, action) ==
    /\ Len(tasks) < MaxTasks
    /\ tasks' = Append(tasks, HandlerTask("respond_follow_request", request, follow_id,
                                          action))
    /\ UNCHANGED <<db, now, next, resp>>

respond_follow_request_find_pending(t) ==
    /\ tasks[t].op = "respond_follow_request" /\ tasks[t].pc = "body"
    /\ LET follow == find_one(follows, pending_request(tasks[t].arg, tasks[t].user))
       IN  IF follow = None THEN Answer(t, 404, "Follow request not found")
           ELSE /\ tasks' = [Goto(t, "set_status") EXCEPT ![t].found = follow]
                /\ resp' = resp
    /\ UNCHANGED <<db, now, next>>

respond_follow_request_set_status(t) ==
    /\ tasks[t].op = "respond_follow_request" /\ tasks[t].pc = "set_status"
    /\ follows' = set_one(follows, [follow_id |-> {tasks[t].arg}],
                          [status |-> new_status_of(tasks[t].action)])
    /\ Answer(t, 200, new_status_of(tasks[t].action))
    /\ UNCHANGED <<user_passwords, users, user_sessions, rides, ride_requests,
                   now, next>>

\* User 1 turns private, user 2 follows and unfollows them, and user 1's
\* answers to the stored follow requests are served concurrently.
NextFollowRespondConc ==
    \/ update_profile(Owner, Private)
    \/ follow_user(Requester, 1)
    \/ unfollow_user(Requester, 1)
    \/ \E follow_id \in FollowIds, action \in Actions :
            /\ find_one(follows, [follow_id |-> {follow_id}]) # None
            /\ respond_follow_request_called(Owner, follow_id, action)
    \/ \E t \in 1..Len(tasks) : auth_find_session(t)
    \/ \E t \in 1..Len(tasks) : auth_find_user(t)
    \/ \E t \in 1..Len(tasks) : respond_follow_request_find_pending(t)
    \/ \E t \in 1..Len(tasks) : respond_follow_request_set_status(t)

InitFollowRespondConc == InitStore(Cardinality(Followers))

SpecFollowRespondConc == InitFollowRespondConc /\ [][NextFollowRespondConc]_vars

(***************************************************************************)
(* register, guest_login and google_callback served concurrently: each     *)
(* awaited store call is one step. A task keeps the handler's user_doc (or *)
(* the existing user that google_callback found) in its field user.        *)
(***************************************************************************)
Anonymous == Request(NoId, NoId)

MaxSignups == 3

\* Fewer than MaxSignups users are stored or being signed up.
SignupOpen == Len(users) + Len(tasks) < MaxSignups

SignupTask(op, arg, action, pc) == [HandlerTask(op, Anonymous, arg, action) EXCEPT !.pc = pc]

register_called(user_data) ==
    /\ Len(tasks) < MaxTasks
    /\ SignupOpen
    /\ tasks' = Append(tasks, SignupTask("register", NoId, user_data, "find_email"))
    /\ UNCHANGED <<db, now, next, resp>>

register_find_email(t) ==
    /\ tasks[t].op = "register" /\ tasks[t].pc = "find_email"
    /\ IF email_taken(tasks[t].action) THEN Answer(t, 400, "Email already registered")
       ELSE tasks' = Goto(t, "find_phone") /\ resp' = resp
    /\ UNCHANGED <<db, now, next>>

register_after_checks_session_first(user_data) == "insert_session"

\* The first store write after the checks: the password row when the body
\* gives a password for an email account, the user record otherwise.
register_after_checks(user_data) ==
    IF user_data.password # NoId /\ user_data.auth_type = "email"
    THEN "insert_password" ELSE "insert_user"

\* The phone check; then user_id and user_doc are made, without an await.
register_find_phone(t) ==
    /\ tasks[t].op = "register" /\ tasks[t].pc = "find_phone"
    /\ LET user_data == tasks[t].action
           user_id == next.user + 1
           user_doc == [UserDoc(user_id, user_data.email, user_data.name,
                                user_data.auth_type, now) EXCEPT !.phone = user_data.phone]
       IN  IF phone_taken(user_data)
           THEN Answer(t, 400, "Phone already registered") /\ next' = next
           ELSE /\ tasks' = [Goto(t, register_after_checks(user_data))
                                EXCEPT ![t].user = user_doc]
                /\ next' = [next EXCEPT !.user = user_id]
                /\ resp' = resp
    /\ UNCHANGED <<db, now>>

register_insert_password(t) ==
    /\ tasks[t].op = "register" /\ tasks[t].pc = "insert_password"
    /\ user_passwords' = insert_one(user_passwords,
            [user_id |-> tasks[t].user.user_id,
             password_hash |-> hash_password(tasks[t].action.password)])
    /\ tasks' = Goto(t, "insert_user")
    /\ UNCHANGED <<users, user_sessions, follows, rides, ride_requests, now, next, resp>>

register_insert_user(t) ==
    /\ tasks[t].op = "register" /\ tasks[t].pc = "insert_user"
    /\ users' = insert_one(users, tasks[t].user)
    /\ tasks' = Goto(t, "insert_session")
    /\ UNCHANGED <<user_passwords, user_sessions, follows, rides, ride_requests,
                   now, next, resp>>

register_insert_session(t) ==
    /\ tasks[t].op = "register" /\ tasks[t].pc = "insert_session"
    /\ next.token < MaxTokens
    /\ LET session_token == create_session_token
       IN  /\ user_sessions' = insert_one(user_sessions,
                                          SessionDoc(tasks[t].user.user_id, session_token))
           /\ next' = [next EXCEPT !.token = session_token]
           /\ Answer(t, 200, [user_id |-> tasks[t].user.user_id,
                              session_token |-> session_token,
                              name |-> tasks[t].action.name])
    /\ UNCHANGED <<users, user_passwords, follows, rides, ride_requests, now>>

guest_login_called ==
    /\ Len(tasks) < MaxTasks
    /\ SignupOpen
    /\ tasks' = Append(tasks, SignupTask("guest_login", NoId, "none", "count_guests"))
    /\ UNCHANGED <<db, now, next, resp>>

guest_login_count_guests(t) ==
    /\ tasks[t].op = "guest_login" /\ tasks[t].pc = "count_guests"
    /\ count_documents(users, [auth_type |-> {"guest"}]) < MaxGuests
    /\ LET user_id == next.user + 1
           guest_num == count_documents(users, [auth_type |-> {"guest"}]) + 1
       IN  /\ tasks' = [Goto(t, "insert_user") EXCEPT ![t].user =
                            UserDoc(user_id, NoId, <<"Guest User", guest_num>>, "guest", now)]
           /\ next' = [next EXCEPT !.user = user_id]
    /\ UNCHANGED <<db, now, resp>>

guest_login_insert_user(t) ==
    /\ tasks[t].op = "guest_login" /\ tasks[t].pc = "insert_user"
    /\ users' = insert_one(users, tasks[t].user)
    /\ tasks' = Goto(t, "insert_session")
    /\ UNCHANGED <<user_passwords, user_sessions, follows, rides, ride_requests,
                   now, next, resp>>

guest_login_insert_session(t) ==
    /\ tasks[t].op = "guest_login" /\ tasks[t].pc = "insert_session"
    /\ next.token < MaxTokens
    /\ LET session_token == create_session_token
       IN  /\ user_sessions' = insert_one(user_sessions,
                                          SessionDoc(tasks[t].user.user_id, session_token))
           /\ next' = [next EXCEPT !.token = session_token]
           /\ Answer(t, 200, [user_id |-> tasks[t].user.user_id,
                              session_token |-> session_token])
    /\ UNCHANGED <<users, user_passwords, follows, rides, ride_requests, now>>

\* The identity service has answered session_id with user_data.
google_callback_called(session_id, user_data) ==
    /\ Len(tasks) < MaxTasks
    /\ SignupOpen
    /\ next.callback < MaxCallbacks
    /\ tasks' = Append(tasks, SignupTask("google_callback", session_id, user_data,
                                         "find_existing"))
    /\ next' = [next EXCEPT !.callback = @ + 1]
    /\ UNCHANGED <<db, now, resp>>

google_callback_find_existing(t) ==
    /\ tasks[t].op = "google_callback" /\ tasks[t].pc = "find_existing"
    /\ LET user_data == tasks[t].action
           existing_user == existing_user_of(user_data)
           user_id == next.user + 1
           user_doc == [UserDoc(user_id, user_data.email, user_data.name, "google", now)
                            EXCEPT !.profile_picture = user_data.picture]
       IN  IF existing_user # None
           THEN /\ tasks' = [Goto(t, "insert_session") EXCEPT ![t].user = existing_user]
                /\ next' = next
           ELSE /\ tasks' = [Goto(t, "insert_user") EXCEPT ![t].user = user_doc]
                /\ next' = [next EXCEPT !.user = user_id]
    /\ UNCHANGED <<db, now, resp>>

google_callback_insert_user(t) ==
    /\ tasks[t].op = "google_callback" /\ tasks[t].pc = "insert_user"
    /\ users' = insert_one(users, tasks[t].user)
    /\ tasks' = Goto(t, "insert_session")
    /\ UNCHANGED <<user_passwords, user_sessions, follows, rides, ride_requests,
                   now, next, resp>>

google_callback_insert_session(t) ==
    /\ tasks[t].op = "google_callback" /\ tasks[t].pc = "insert_session"
    /\ LET session_token == tasks[t].action.session_token
       IN  /\ user_sessions' = insert_one(user_sessions,
                                          SessionDoc(tasks[t].user.user_id, session_token))
           /\ Answer(t, 200, [user_id |-> tasks[t].user.user_id,
                              session_token |-> session_token,
                              name |-> tasks[t].action.name])
    /\ UNCHANGED <<users, user_passwords, follows, rides, ride_requests, now, next>>

\* Bodies of POST /auth/register: an email account with a password and a
\* phone account, each of which may be sent more than once.
SignupRegistrations == {UserCreate(1, NoId, 1, "email"), UserCreate(NoId, 1, 1, "phone")}

NextSignupConc ==
    \/ \E user_data \in SignupRegistrations : register_called(user_data)
    \/ guest_login_called
    \/ \E session_id \in ExternalSessions :
            google_callback_called(session_id, session_data(session_id))
    \/ \E t \in 1..Len(tasks) : register_find_email(t)
    \/ \E t \in 1..Len(tasks) : register_find_phone(t)
    \/ \E t \in 1..Len(tasks) : register_insert_password(t)
    \/ \E t \in 1..Len(tasks) : register_insert_user(t)
    \/ \E t \in 1..Len(tasks) : register_insert_session(t)
    \/ \E t \in 1..Len(tasks) : guest_login_count_guests(t)
    \/ \E t \in 1..Len(tasks) : guest_login_insert_user(t)
    \/ \E t \in 1..Len(tasks) : guest_login_insert_session(t)
    \/ \E t \in 1..Len(tasks) : google_callback_find_existing(t)
    \/ \E t \in 1..Len(tasks) : google_callback_insert_user(t)
    \/ \E t \in 1..Len(tasks) : google_callback_insert_session(t)

InitSignupConc == InitStore(0)

SpecSignupConc == InitSignupConc /\ [][NextSignupConc]_vars

(***************************************************************************)
(* Answers with any action value: user 1 turns private and offers a ride,  *)
(* user 2 follows them and requests the ride, and user 1 answers with      *)
(* accept, reject or a value that is neither.                              *)
(***************************************************************************)
AnyActions == Actions \cup {"cancel"}

NextAction ==
    \/ update_profile(Owner, Private)
    \/ follow_user(Requester, 1)
    \/ \E follow_id \in FollowIds, action \in AnyActions :
            respond_follow_request(Owner, follow_id, action)
    \/ \E n \in 0..MaxSeats : create_ride(Owner, n)
    \/ \E ride_id \in RideIds : request_ride(Requester, ride_id)
    \/ \E request_id \in RequestIds, action \in AnyActions :
            respond_ride_request(Owner, request_id, action)

InitAction == InitStore(Cardinality(Followers))

SpecAction == InitAction /\ [][NextAction]_vars

(***************************************************************************)
(* C1: a request presenting the token of a stored session row whose        *)
(* expires_at is at or before the current time resolves to no user, so     *)
(* /auth/me answers 401, and the call leaves the session rows as they are. *)
(***************************************************************************)
Presents(request, token) ==
    \/ request.cookie = token
    \/ request.cookie = NoId /\ request.bearer = token

ExpiredRow(token) ==
    \E i \in 1..Len(user_sessions) :
        /\ user_sessions[i].session_token = token
        /\ user_sessions[i].expires_at <= now

C1_ExpiredResolvesToNone ==
    \A request \in SessionRequests : \A token \in Tokens :
        Presents(request, token) /\ ExpiredRow(token)
            => get_current_user(request) = None /\ ~authenticated(request)

C1_ExpiredGetMe401 ==
    \A token \in Tokens :
        Called("get_me") /\ Presents(resp'.request, token) /\ ExpiredRow(token)
            => resp'.code = 401 /\ user_sessions' = user_sessions

\* C1: an expired session row never authenticates, and checking it leaves the
\* row as it is.
C1_ExpiredSessionNeverAuthenticates ==
    [](C1_ExpiredResolvesToNone) /\ [][C1_ExpiredGetMe401]_vars

\* /auth/me has answered 401 to the token of a registered user's session
\* whose row is still stored and has expired.
C1_Witness ==
    /\ resp.op = "get_me" /\ resp.code = 401
    /\ \E i \in 1..Len(user_sessions) :
        /\ Presents(resp.request, user_sessions[i].session_token)
        /\ user_sessions[i].user_id \in Riders
        /\ user_sessions[i].expires_at = now

(***************************************************************************)
(* What a call found when it started: the caller it resolved, the ride     *)
(* request and the ride it named.  Read in the state before the step.      *)
(***************************************************************************)
Actor == get_current_user(resp'.request)

RequestIn(reqs, request_id) == find_one(reqs, [request_id |-> {request_id}])

RideIn(rs, ride_id) == find_one(rs, [ride_id |-> {ride_id}])

RequestNamed(request_id) == RequestIn(ride_requests, request_id)

RideNamed(ride_id) == RideIn(rides, ride_id)

RequestsOf(user_id, ride_id) ==
    {i \in 1..Len(ride_requests) :
        ride_requests[i].requester_id = user_id /\ ride_requests[i].ride_id = ride_id}

Decided == {"accepted", "rejected"}

Active == {"pending", "accepted"}

(***************************************************************************)
(* C2: a ride request is created pending, and once its status is accepted  *)
(* or rejected no later respond call changes that status or takes a        *)
(* further seat from the ride.                                             *)
(***************************************************************************)
C2_DecidedRequestIsFinal ==
    [][/\ \A i \in 1..Len(ride_requests) :
            ride_requests[i].status \in Decided
                => /\ ride_requests'[i].status = ride_requests[i].status
                   /\ (Called("respond_ride_request")
                         /\ resp'.arg = ride_requests[i].request_id) => rides' = rides
       /\ \A i \in (Len(ride_requests) + 1)..Len(ride_requests') :
            ride_requests'[i].status = "pending"]_vars

(***************************************************************************)
(* C3: for each requester and ride, at most one ride request is pending or *)
(* accepted.                                                               *)
(***************************************************************************)
C3_AtMostOneActiveRequest ==
    \A i, j \in 1..Len(ride_requests) :
        /\ ride_requests[i].ride_id = ride_requests[j].ride_id
        /\ ride_requests[i].requester_id = ride_requests[j].requester_id
        /\ ride_requests[i].status \in Active
        /\ ride_requests[j].status \in Active
        => i = j

(***************************************************************************)
(* C4: when the owner of a ride accepts a pending request on it, the       *)
(* request becomes accepted; the ride's available_seats goes from n to     *)
(* n - 1 when n > 0 and stays 0 when it is 0.                              *)
(***************************************************************************)
C4_AcceptTakesOneSeat ==
    [][Called("respond_ride_request") /\ resp'.action = "accept" =>
        LET ride_request == RequestNamed(resp'.arg)
            ride == RideNamed(ride_request.ride_id)
        IN  (/\ Actor # None
             /\ ride_request # None
             /\ ride_request.status = "pending"
             /\ ride # None
             /\ ride.user_id = Actor.user_id)
            => /\ resp'.code = 200
               /\ RequestIn(ride_requests', resp'.arg).status = "accepted"
               /\ ride.available_seats > 0 =>
                    RideIn(rides', ride.ride_id).available_seats = ride.available_seats - 1
               /\ ride.available_seats = 0 =>
                    RideIn(rides', ride.ride_id).available_seats = 0]_vars

\* The owner's accept has just been answered 200, the request is accepted and
\* the ride is left with one seat.
C4_Witness ==
    /\ resp.op = "respond_ride_request" /\ resp.action = "accept" /\ resp.code = 200
    /\ RequestNamed(resp.arg) # None
    /\ RequestNamed(resp.arg).status = "accepted"
    /\ RideNamed(RequestNamed(resp.arg).ride_id) # None
    /\ RideNamed(RequestNamed(resp.arg).ride_id).available_seats = 1

(***************************************************************************)
(* C5, as claimed: request fails 400 and creates nothing when the caller   *)
(* already has a pending or accepted request on the ride, and succeeds     *)
(* with a new pending request when the caller's earlier requests on the    *)
(* ride are all rejected.                                                  *)
(***************************************************************************)
NewRequest(user_id, ride_id) ==
    /\ Len(ride_requests') = Len(ride_requests) + 1
    /\ SubSeq(ride_requests', 1, Len(ride_requests)) = ride_requests
    /\ ride_requests'[Len(ride_requests')].requester_id = user_id
    /\ ride_requests'[Len(ride_requests')].ride_id = ride_id
    /\ ride_requests'[Len(ride_requests')].status = "pending"

RequestOutcome(ride_exists) ==
    LET mine == RequestsOf(Actor.user_id, resp'.arg)
    IN  /\ (\E i \in mine : ride_requests[i].status \in Active) /\ ride_exists
            => resp'.code = 400 /\ ride_requests' = ride_requests
        /\ (mine # {} /\ \A i \in mine : ride_requests[i].status = "rejected") /\ ride_exists
            => resp'.code = 200 /\ NewRequest(Actor.user_id, resp'.arg)

\* C5: a request is refused 400 while the caller has a pending or accepted
\* request on the ride, and is created pending when all of them are rejected.
C5_DuplicateRequestConflict ==
    [][Called("request_ride") /\ Actor # None => RequestOutcome(TRUE)]_vars

(***************************************************************************)
(* C5, amended: the same while the ride is still stored; on a ride that    *)
(* has been deleted request fails 404 and creates nothing.                 *)
(***************************************************************************)
C5_DuplicateRequestConflictOnStoredRide ==
    [][Called("request_ride") /\ Actor # None =>
        /\ RequestOutcome(RideNamed(resp'.arg) # None)
        /\ RideNamed(resp'.arg) = None
            => resp'.code = 404 /\ ride_requests' = ride_requests]_vars

\* A second request by a user with a pending or accepted request on the stored
\* ride has just been answered 400.
C5_Witness ==
    /\ resp.op = "request_ride" /\ resp.code = 400
    /\ RideNamed(resp.arg) # None
    /\ get_current_user(resp.request) # None
    /\ \E i \in RequestsOf(get_current_user(resp.request).user_id, resp.arg) :
            ride_requests[i].status \in Active

(***************************************************************************)
(* C6: respond on a ride request fails 404 when the request does not       *)
(* exist and 403 when its ride is gone or the caller is not the ride's     *)
(* owner, leaving every request and ride as it was; a request's status     *)
(* changes only in a respond call by the owner of its ride.                *)
(***************************************************************************)
C6_OnlyOwnerResponds ==
    [][/\ Called("respond_ride_request") /\ Actor # None =>
            LET ride_request == RequestNamed(resp'.arg)
                ride == RideNamed(ride_request.ride_id)
            IN  /\ ride_request = None
                    => resp'.code = 404 /\ UNCHANGED <<ride_requests, rides>>
                /\ ride_request # None /\ (ride = None \/ ride.user_id # Actor.user_id)
                    => resp'.code = 403 /\ UNCHANGED <<ride_requests, rides>>
                /\ ~UNCHANGED <<ride_requests, rides>>
                    => ride # None /\ ride.user_id = Actor.user_id
       /\ (\E i \in 1..Len(ride_requests) :
                ride_requests'[i].status # ride_requests[i].status)
            => /\ Called("respond_ride_request")
               /\ Actor # None
               /\ RideNamed(RequestNamed(resp'.arg).ride_id).user_id = Actor.user_id]_vars

\* A respond by a user who does not own the request's ride has just been
\* answered 403, and the request is still pending.
C6_Witness ==
    /\ resp.op = "respond_ride_request" /\ resp.code = 403
    /\ RequestNamed(resp.arg) # None
    /\ RequestNamed(resp.arg).status = "pending"
    /\ RideNamed(RequestNamed(resp.arg).ride_id) # None
    /\ RideNamed(RequestNamed(resp.arg).ride_id).user_id
            # get_current_user(resp.request).user_id
(***************************************************************************)
(* The follow edges from one user to another, and the edge a follow_id     *)
(* names.                                                                  *)
(***************************************************************************)
EdgesBetween(fs, follower_id, following_id) ==
    {i \in 1..Len(fs) :
        fs[i].follower_id = follower_id /\ fs[i].following_id = following_id}

EdgeIn(fs, follow_id) == find_one(fs, [follow_id |-> {follow_id}])

(***************************************************************************)
(* C7: when follow(A,B) has succeeded and A calls follow(A,B) again as the *)
(* very next call, the second call succeeds with the status the first      *)
(* returned, adds no edge, and the store holds exactly one edge A->B.      *)
(***************************************************************************)
C7_FollowTwiceSameStatus ==
    [][(/\ Called("follow_user")
        /\ resp.op = "follow_user" /\ resp.code = 200
        /\ resp'.request = resp.request /\ resp'.arg = resp.arg)
        => /\ resp'.code = 200
           /\ resp'.out.status = resp.out.status
           /\ follows' = follows
           /\ Cardinality(EdgesBetween(follows', Actor.user_id, resp'.arg)) = 1]_vars

\* A repeated follow has just been answered from the stored edge, which is the
\* only one from the caller to the target.
C7_Witness ==
    /\ resp.op = "follow_user" /\ resp.code = 200
    /\ resp.out.message = "Already following or request pending"
    /\ \E i \in 1..Len(follows) :
        /\ EdgesBetween(follows, follows[i].follower_id, follows[i].following_id) = {i}
        /\ follows[i].follower_id = get_current_user(resp.request).user_id
        /\ follows[i].following_id = resp.arg
        /\ follows[i].status = resp.out.status

(***************************************************************************)
(* C8: there is at most one follow edge per ordered (follower_id,          *)
(* following_id) pair, also when the store steps of concurrent follow      *)
(* calls interleave.                                                       *)
(***************************************************************************)
C8_OneEdgePerPair ==
    \A i, j \in 1..Len(follows) :
        /\ follows[i].follower_id = follows[j].follower_id
        /\ follows[i].following_id = follows[j].following_id
        => i = j
(***************************************************************************)
(* C9: when no edge A->B is stored, follow(A,B) on an existing user B      *)
(* other than A appends one edge A->B whose status is accepted if B's      *)
(* is_public is true and pending otherwise, and returns that status; an    *)
(* edge created accepted is never pending afterwards.                      *)
(***************************************************************************)
C9_FollowStatusFromVisibility ==
    [][/\ Called("follow_user") /\ Actor # None =>
            LET target_user == find_one(users, [user_id |-> {resp'.arg}])
            IN  (/\ resp'.arg # Actor.user_id
                 /\ target_user # None
                 /\ EdgesBetween(follows, Actor.user_id, resp'.arg) = {})
                => /\ resp'.code = 200
                   /\ Len(follows') = Len(follows) + 1
                   /\ SubSeq(follows', 1, Len(follows)) = follows
                   /\ follows'[Len(follows')].follower_id = Actor.user_id
                   /\ follows'[Len(follows')].following_id = resp'.arg
                   /\ follows'[Len(follows')].status =
                        (IF target_user.is_public THEN "accepted" ELSE "pending")
                   /\ resp'.out.status = follows'[Len(follows')].status
       /\ \A i \in 1..Len(follows) :
            follows[i].status = "accepted" /\ EdgeIn(follows', follows[i].follow_id) # None
                => EdgeIn(follows', follows[i].follow_id).status = "accepted"]_vars

\* A follow of a public user has just created an accepted edge.
C9_Witness ==
    /\ resp.op = "follow_user" /\ resp.code = 200
    /\ resp.out.message = "Now following"
    /\ find_one(users, [user_id |-> {resp.arg}]).is_public
    /\ \E i \in EdgesBetween(follows, get_current_user(resp.request).user_id, resp.arg) :
            follows[i].status = "accepted"

(***************************************************************************)
(* C10: follow(A,B) on a private B with no edge A->B stores a pending      *)
(* edge; respond(B, that edge, accept) makes it accepted; an accepted edge *)
(* stays accepted while it is stored; and status(A,B) reports              *)
(* is_following = true exactly when an accepted edge A->B is stored.       *)
(***************************************************************************)
C10_AcceptedFollowIsReported ==
    [][/\ Called("follow_user") /\ resp'.code = 200
            /\ ~find_one(users, [user_id |-> {resp'.arg}]).is_public
            /\ EdgesBetween(follows, Actor.user_id, resp'.arg) = {}
            => /\ resp'.out.status = "pending"
               /\ \E i \in EdgesBetween(follows', Actor.user_id, resp'.arg) :
                    follows'[i].status = "pending"
       /\ Called("respond_follow_request") /\ resp'.action = "accept" /\ Actor # None
            /\ EdgeIn(follows, resp'.arg) # None
            /\ EdgeIn(follows, resp'.arg).following_id = Actor.user_id
            /\ EdgeIn(follows, resp'.arg).status = "pending"
            => /\ resp'.code = 200
               /\ EdgeIn(follows', resp'.arg).status = "accepted"
       /\ \A i \in 1..Len(follows) :
            follows[i].status = "accepted" /\ EdgeIn(follows', follows[i].follow_id) # None
                => EdgeIn(follows', follows[i].follow_id).status = "accepted"
       /\ Called("get_follow_status") =>
            (resp'.out.is_following
                <=> /\ Actor # None
                    /\ \E i \in EdgesBetween(follows, Actor.user_id, resp'.arg) :
                            follows[i].status = "accepted")]_vars

\* status(A,B) has just reported is_following = true for a private B whose
\* edge from A is accepted.
C10_Witness ==
    /\ resp.op = "get_follow_status" /\ resp.out.is_following
    /\ ~find_one(users, [user_id |-> {resp.arg}]).is_public
    /\ \E i \in EdgesBetween(follows, get_current_user(resp.request).user_id, resp.arg) :
            follows[i].status = "accepted"

(***************************************************************************)
(* C11: while an edge A->B is rejected, follow(A,B) returns rejected and   *)
(* writes nothing, whatever B's visibility; a rejected edge keeps its      *)
(* status and leaves the store only in unfollow(A,B); and a follow adds an *)
(* edge A->B only when none is stored, with the status B's visibility      *)
(* gives at that time.                                                     *)
(***************************************************************************)
C11_RejectedUntilUnfollow ==
    [][/\ Called("follow_user") /\ Actor # None
            /\ (\E i \in EdgesBetween(follows, Actor.user_id, resp'.arg) :
                    follows[i].status = "rejected")
            => /\ resp'.code = 200
               /\ resp'.out.status = "rejected"
               /\ follows' = follows
       /\ \A i \in 1..Len(follows) :
            follows[i].status = "rejected" =>
                IF EdgeIn(follows', follows[i].follow_id) = None
                THEN /\ Called("unfollow_user")
                     /\ Actor.user_id = follows[i].follower_id
                     /\ resp'.arg = follows[i].following_id
                ELSE EdgeIn(follows', follows[i].follow_id) = follows[i]
       /\ Len(follows') > Len(follows)
            => /\ Called("follow_user")
               /\ EdgesBetween(follows, Actor.user_id, resp'.arg) = {}
               /\ follows'[Len(follows')].follower_id = Actor.user_id
               /\ follows'[Len(follows')].following_id = resp'.arg
               /\ follows'[Len(follows')].status =
                    (IF find_one(users, [user_id |-> {resp'.arg}]).is_public
                     THEN "accepted" ELSE "pending")]_vars

\* A follow of a user who is public by now has just been answered rejected from
\* the stored rejected edge.
C11_Witness ==
    /\ resp.op = "follow_user" /\ resp.code = 200
    /\ resp.out.status = "rejected"
    /\ find_one(users, [user_id |-> {resp.arg}]).is_public
    /\ \E i \in EdgesBetween(follows, get_current_user(resp.request).user_id, resp.arg) :
            follows[i].status = "rejected"

(***************************************************************************)
(* C12: respond(actor, follow_id, action) answers 404 and leaves every     *)
(* edge as it was unless the edge with that follow_id is stored, has the   *)
(* actor as its following_id and is pending; in that case it succeeds.     *)
(***************************************************************************)
C12_RespondNeedsOwnPendingEdge ==
    [][Called("respond_follow_request") /\ Actor # None =>
        LET follow == EdgeIn(follows, resp'.arg)
        IN  IF /\ follow # None
               /\ follow.following_id = Actor.user_id
               /\ follow.status = "pending"
            THEN resp'.code = 200
            ELSE resp'.code = 404 /\ follows' = follows]_vars

\* The target's respond on an edge that is no longer pending has just been
\* answered 404.
C12_Witness ==
    /\ resp.op = "respond_follow_request" /\ resp.code = 404
    /\ EdgeIn(follows, resp.arg) # None
    /\ EdgeIn(follows, resp.arg).following_id = get_current_user(resp.request).user_id
    /\ EdgeIn(follows, resp.arg).status \in Decided

(***************************************************************************)
(* C13: follow(A,A) answers 400 and stores no edge, request(A, ride of A)  *)
(* answers 400 and stores no request, whatever A's visibility; no stored   *)
(* edge has follower_id = following_id and no stored request is by the     *)
(* owner of its ride.                                                      *)
(***************************************************************************)
C13_NoSelfEdgeOrRequest ==
    /\ \A i \in 1..Len(follows) : follows[i].follower_id # follows[i].following_id
    /\ \A i \in 1..Len(ride_requests) :
        RideNamed(ride_requests[i].ride_id) # None
            => RideNamed(ride_requests[i].ride_id).user_id # ride_requests[i].requester_id

C13_SelfCallsRefused ==
    /\ Called("follow_user") /\ Actor # None /\ resp'.arg = Actor.user_id
        => resp'.code = 400 /\ follows' = follows
    /\ Called("request_ride") /\ Actor # None
        /\ RideNamed(resp'.arg) # None /\ RideNamed(resp'.arg).user_id = Actor.user_id
        => resp'.code = 400 /\ ride_requests' = ride_requests

\* C13: self-follow and self-request are refused 400 and never stored.
C13_SelfFollowAndSelfRequestRefused ==
    [](C13_NoSelfEdgeOrRequest) /\ [][C13_SelfCallsRefused]_vars

\* A user who has turned private has just been refused a request on the ride
\* they own.
C13_Witness ==
    /\ resp.op = "request_ride" /\ resp.code = 400
    /\ RideNamed(resp.arg) # None
    /\ RideNamed(resp.arg).user_id = get_current_user(resp.request).user_id
    /\ ~get_current_user(resp.request).is_public

(***************************************************************************)
(* C14: view of a private target returns the redacted projection when the  *)
(* viewer is absent, or is not the target and has no accepted edge to it;  *)
(* it returns the full profile only to the target or to a viewer with an   *)
(* accepted edge.                                                          *)
(***************************************************************************)
Redacted(out) == {"email", "phone", "bio"} \cap DOMAIN out = {}

C14_PrivateProfileRedacted ==
    [][Called("get_user") /\ resp'.code = 200 =>
        LET target == find_one(users, [user_id |-> {resp'.arg}])
            entitled ==
                /\ Actor # None
                /\ \/ Actor.user_id = resp'.arg
                   \/ \E i \in EdgesBetween(follows, Actor.user_id, resp'.arg) :
                            follows[i].status = "accepted"
        IN  ~target.is_public => (Redacted(resp'.out) <=> ~entitled)]_vars

(***************************************************************************)
(* C15: update and delete of a stored ride by an authenticated user other  *)
(* than its owner answer 403 and leave the rides as they were; by the      *)
(* owner they answer 200, update setting the fields the patch carries and  *)
(* delete removing the ride; on a ride that is not stored both answer 404. *)
(***************************************************************************)
Patched(ride, update_data) ==
    [k \in DOMAIN ride |->
        IF k \in DOMAIN update_data /\ update_data[k] # << >>
        THEN update_data[k][1] ELSE ride[k]]

C15_OnlyOwnerChangesRide ==
    [][/\ Called("update_ride") /\ Actor # None =>
            LET ride == RideNamed(resp'.arg)
            IN  IF ride = None THEN resp'.code = 404 /\ rides' = rides
                ELSE IF ride.user_id # Actor.user_id THEN resp'.code = 403 /\ rides' = rides
                ELSE /\ resp'.code = 200
                     /\ Len(rides') = Len(rides)
                     /\ \A i \in 1..Len(rides) :
                            rides'[i] = IF rides[i].ride_id = resp'.arg
                                        THEN Patched(rides[i], resp'.action) ELSE rides[i]
       /\ Called("delete_ride") /\ Actor # None =>
            LET ride == RideNamed(resp'.arg)
            IN  IF ride = None THEN resp'.code = 404 /\ rides' = rides
                ELSE IF ride.user_id # Actor.user_id THEN resp'.code = 403 /\ rides' = rides
                ELSE /\ resp'.code = 200
                     /\ RideIn(rides', resp'.arg) = None
                     /\ Len(rides') = Len(rides) - 1]_vars

\* An update by a user who does not own the stored ride has just been answered
\* 403.
C15_Witness ==
    /\ resp.op = "update_ride" /\ resp.code = 403
    /\ resp.action.available_seats # << >>
    /\ RideNamed(resp.arg) # None
    /\ RideNamed(resp.arg).user_id # get_current_user(resp.request).user_id
    /\ RideNamed(resp.arg).available_seats # resp.action.available_seats[1]

(***************************************************************************)
(* C16: a successful register, login or guest login stores a session row   *)
(* for the returned token and user_id, and while such a row is stored and  *)
(* not expired its token, as cookie or as Bearer header, resolves to       *)
(* exactly that user.                                                      *)
(***************************************************************************)
Issuing == {"register", "login", "guest_login"}

C16_IssuedRowResolves ==
    \A i \in 1..Len(user_sessions) :
        LET session == user_sessions[i]
        IN  session.session_token \in Tokens /\ session.expires_at > now
            => \A request \in {Request(session.session_token, NoId),
                               Request(NoId, session.session_token)} :
                    /\ get_current_user(request) # None
                    /\ get_current_user(request).user_id = session.user_id

C16_IssueStoresRow ==
    \A op \in Issuing :
        Called(op) /\ resp'.code = 200 =>
            \E i \in 1..Len(user_sessions') :
                /\ user_sessions'[i].session_token = resp'.out.session_token
                /\ user_sessions'[i].session_token \in Tokens
                /\ user_sessions'[i].user_id = resp'.out.user_id
                /\ user_sessions'[i].expires_at > now'

\* C16: the token a register, login or guest login returns authenticates as
\* the returned user until it expires or is revoked.
C16_IssuedTokenAuthenticates ==
    [](C16_IssuedRowResolves) /\ [][C16_IssueStoresRow]_vars

\* A login has just returned a token, and the token resolves to the user the
\* login returned.
C16_Witness ==
    /\ resp.op = "login" /\ resp.code = 200
    /\ get_current_user(Request(resp.out.session_token, NoId)) # None
    /\ get_current_user(Request(resp.out.session_token, NoId)).user_id = resp.out.user_id

(***************************************************************************)
(* Session rows by token.                                                  *)
(***************************************************************************)
AllTokens == Tokens \cup ExternalTokens

RowsOf(sessions, token) ==
    {i \in 1..Len(sessions) : sessions[i].session_token = token}

OtherRows(sessions, token) ==
    SelectSeq(sessions, LAMBDA session : session.session_token # token)

(***************************************************************************)
(* C17: when logout with a token completes no session row carries the      *)
(* token; a token without a row does not authenticate; and a row for such  *)
(* a token appears only when a register, login, guest login or external-   *)
(* identity callback issues a session with that token value.               *)
(***************************************************************************)
C17_NoRowNoUser ==
    \A token \in AllTokens :
        RowsOf(user_sessions, token) = {}
            => /\ get_current_user(Request(token, NoId)) = None
               /\ get_current_user(Request(NoId, token)) = None

C17_LogoutRemovesToken ==
    /\ Called("logout") /\ extract_token(resp'.request) # NoId
        => RowsOf(user_sessions', extract_token(resp'.request)) = {}
    /\ \A token \in AllTokens :
        RowsOf(user_sessions, token) = {} /\ RowsOf(user_sessions', token) # {}
            => /\ \E op \in Issuing \cup {"google_callback"} : Called(op)
               /\ resp'.code = 200
               /\ resp'.out.session_token = token

\* C17: a token that has been logged out never authenticates again unless a
\* session with that token value is issued afterwards.
C17_RevokedTokenNeverAuthenticates ==
    [](C17_NoRowNoUser) /\ [][C17_LogoutRemovesToken]_vars

(***************************************************************************)
(* C18: logout with no token, or with a token that has no session row,     *)
(* answers 200 and leaves the session rows as they were; a logout repeated *)
(* with the same token right after a logout changes nothing.               *)
(***************************************************************************)
C18_RevokeIdempotent ==
    [][Called("logout") =>
        /\ resp'.code = 200
        /\ (\/ extract_token(resp'.request) = NoId
            \/ RowsOf(user_sessions, extract_token(resp'.request)) = {})
            => user_sessions' = user_sessions
        /\ resp.op = "logout" /\ resp.request = resp'.request
            => user_sessions' = user_sessions]_vars

(***************************************************************************)
(* C19: no two session rows carry the same session_token.                  *)
(***************************************************************************)
C19_SessionTokensUnique ==
    \A i, j \in 1..Len(user_sessions) :
        user_sessions[i].session_token = user_sessions[j].session_token => i = j

(***************************************************************************)
(* C20: a successful login appends one session row and leaves every other  *)
(* row and every user as it was, so the tokens that resolved to a user     *)
(* before it resolve to the same user after it; logout with a token leaves *)
(* the rows of every other token as they were.                             *)
(***************************************************************************)
C20_LoginAddsLogoutRemovesOne ==
    [][/\ Called("login") /\ resp'.code = 200
            => /\ Len(user_sessions') = Len(user_sessions) + 1
               /\ SubSeq(user_sessions', 1, Len(user_sessions)) = user_sessions
               /\ user_sessions'[Len(user_sessions')].user_id = resp'.out.user_id
               /\ RowsOf(user_sessions, resp'.out.session_token) = {}
               /\ users' = users
       /\ Called("logout")
            => /\ OtherRows(user_sessions', extract_token(resp'.request))
                    = OtherRows(user_sessions, extract_token(resp'.request))
               /\ Len(user_sessions') >= Len(user_sessions) - 1
               /\ users' = users]_vars

\* A user holding two sessions has just logged in again: the login's token and
\* both earlier tokens resolve to that user.
C20_Witness ==
    /\ resp.op = "login" /\ resp.code = 200
    /\ Cardinality({i \in 1..Len(user_sessions) :
            /\ user_sessions[i].user_id = resp.out.user_id
            /\ get_current_user(Request(user_sessions[i].session_token, NoId)) # None
            /\ get_current_user(Request(user_sessions[i].session_token, NoId)).user_id
                    = resp.out.user_id}) >= 3

(***************************************************************************)
(* C21: a request with a session cookie is authenticated, and logged out,  *)
(* by the cookie's token alone, whatever its Authorization header carries  *)
(* and whether or not the cookie's token has a live row; the header's      *)
(* token is the one used when there is no cookie.                          *)
(***************************************************************************)
\* The one token a request stands for.
Canonical(request) == IF request.cookie # NoId THEN request.cookie ELSE request.bearer

C21_CookieDecidesUser ==
    \A request \in TokenRequests :
        get_current_user(request) = get_current_user(Request(Canonical(request), NoId))

C21_CookieDecidesCall ==
    /\ Called("get_me") =>
            LET user == get_current_user(Request(Canonical(resp'.request), NoId))
            IN  /\ resp'.code = IF user = None THEN 401 ELSE 200
                /\ resp'.code = 200 => resp'.out = user
                /\ user_sessions' = user_sessions
    /\ Called("logout") =>
            /\ Canonical(resp'.request) = NoId => user_sessions' = user_sessions
            /\ Canonical(resp'.request) # NoId =>
                    /\ RowsOf(user_sessions', Canonical(resp'.request)) = {}
                    /\ OtherRows(user_sessions', Canonical(resp'.request))
                            = OtherRows(user_sessions, Canonical(resp'.request))

EmailStored(email) == \E i \in 1..Len(users) : users[i].email = email

PhoneStored(phone) == \E i \in 1..Len(users) : users[i].phone = phone

C22_RegisterConflict ==
    [][Called("register") /\ (\/ resp'.action.email # NoId /\ EmailStored(resp'.action.email)
                              \/ resp'.action.phone # NoId /\ PhoneStored(resp'.action.phone))
        => /\ resp'.code = 400
           /\ users' = users
           /\ user_passwords' = user_passwords
           /\ user_sessions' = user_sessions]_vars

\* A registration whose email is free and whose phone belongs to a stored
\* user has been refused.
C22_Witness ==
    /\ resp.op = "register" /\ resp.code = 400
    /\ resp.action.email # NoId /\ ~EmailStored(resp.action.email)
    /\ resp.action.phone # NoId /\ PhoneStored(resp.action.phone)

(***************************************************************************)
(* C23: login answers 401 "Invalid credentials", the same status and the   *)
(* same detail, when no user has the given email (or phone), when the user *)
(* has no password row and when the password does not verify; in each case *)
(* no session is inserted and nothing stored changes.                      *)
(***************************************************************************)
\* The stored users a login names: by email when one is given, else by phone.
NamedBy(credentials) ==
    {i \in 1..Len(users) :
        \/ credentials.email # NoId /\ users[i].email = credentials.email
        \/ credentials.email = NoId /\ credentials.phone # NoId
                                    /\ users[i].phone = credentials.phone}

PasswordRowsOf(user_id) ==
    {j \in 1..Len(user_passwords) : user_passwords[j].user_id = user_id}

NoMatchingUser(credentials) == NamedBy(credentials) = {}

NoStoredCredential(credentials) ==
    /\ NamedBy(credentials) # {}
    /\ \A i \in NamedBy(credentials) : PasswordRowsOf(users[i].user_id) = {}

CredentialMismatch(credentials) ==
    /\ NamedBy(credentials) # {}
    /\ \A i \in NamedBy(credentials) :
        /\ PasswordRowsOf(users[i].user_id) # {}
        /\ \A j \in PasswordRowsOf(users[i].user_id) :
            user_passwords[j].password_hash # hash_password(credentials.password)

C23_LoginFailsAlike ==
    [][Called("login") /\ (\/ NoMatchingUser(resp'.action)
                           \/ NoStoredCredential(resp'.action)
                           \/ CredentialMismatch(resp'.action))
        => /\ resp'.code = 401
           /\ resp'.out = "Invalid credentials"
           /\ UNCHANGED <<db, next, now>>]_vars

\* A login naming a stored user who has no password row has been refused.
C23_Witness ==
    /\ resp.op = "login" /\ resp.code = 401
    /\ NoStoredCredential(resp.action)

(***************************************************************************)
(* C24: a registration with an email, a password and auth_type email       *)
(* leaves a user and a password row that no later step changes, and login  *)
(* with that email and that password answers 200 with the user_id the      *)
(* registration returned.                                                  *)
(***************************************************************************)
\* The stored user with this email is user_id, an email account, and the
\* password row of user_id holds the hash of this password.
CredentialedIn(us, pws, email, password, user_id) ==
    /\ \E i \in 1..Len(us) :
        /\ us[i].email = email
        /\ us[i].user_id = user_id
        /\ us[i].auth_type = "email"
    /\ \A i \in 1..Len(us) : us[i].email = email => us[i].user_id = user_id
    /\ \E j \in 1..Len(pws) : pws[j].user_id = user_id
    /\ \A j \in 1..Len(pws) :
        pws[j].user_id = user_id => pws[j].password_hash = hash_password(password)

Credentialed(email, password, user_id) ==
    CredentialedIn(users, user_passwords, email, password, user_id)

UserIds == {users[i].user_id : i \in 1..Len(users)}

C24_RegisterStoresCredential ==
    Called("register") /\ resp'.code = 200 /\ resp'.action.email # NoId
                       /\ resp'.action.password # NoId /\ resp'.action.auth_type = "email"
        => CredentialedIn(users', user_passwords', resp'.action.email,
                          resp'.action.password, resp'.out.user_id)

C24_CredentialStays ==
    \A email \in RegistryEmails, password \in Passwords, user_id \in UserIds :
        Credentialed(email, password, user_id)
            => CredentialedIn(users', user_passwords', email, password, user_id)

C24_CredentialLogsIn ==
    \A user_id \in UserIds :
        Called("login") /\ resp'.action.email # NoId
                        /\ Credentialed(resp'.action.email, resp'.action.password, user_id)
            => resp'.code = 200 /\ resp'.out.user_id = user_id

\* C24: the email and password of a registration log in as the registered
\* user, whatever happened in between.
C24_RegisteredPasswordLogsIn ==
    [][C24_RegisterStoresCredential /\ C24_CredentialStays /\ C24_CredentialLogsIn]_vars

\* A user who registered with an email and a password, and was renamed
\* since, has logged in with them.
C24_Witness ==
    /\ resp.op = "login" /\ resp.code = 200
    /\ Credentialed(resp.action.email, resp.action.password, resp.out.user_id)
    /\ \E i \in 1..Len(users) :
        users[i].user_id = resp.out.user_id /\ users[i].name = NewName

(***************************************************************************)
(* C25: once B has requested the three-seat ride R that A offers, the      *)
(* requests A receives include B's request with status pending; when A     *)
(* accepts it, R has two seats left and the request is accepted.           *)
(***************************************************************************)
\* The stored requests on rides of owner_id made by somebody else and still pending.
PendingFor(owner_id) ==
    {i \in 1..Len(ride_requests) :
        /\ ride_requests[i].status = "pending"
        /\ ride_requests[i].requester_id # owner_id
        /\ RideNamed(ride_requests[i].ride_id) # None
        /\ RideNamed(ride_requests[i].ride_id).user_id = owner_id}

C25_ReceivedShowsPending ==
    Called("get_received_requests") /\ Actor # None
        => \A i \in PendingFor(Actor.user_id) :
            \E k \in 1..Len(resp'.out) :
                /\ resp'.out[k].request_id = ride_requests[i].request_id
                /\ resp'.out[k].requester_id = ride_requests[i].requester_id
                /\ resp'.out[k].status = "pending"

C25_AcceptLeavesTwoSeats ==
    Called("respond_ride_request") /\ resp'.action = "accept" /\ Actor # None
        => \A i \in PendingFor(Actor.user_id) :
            /\ ride_requests[i].request_id = resp'.arg
            /\ RideNamed(ride_requests[i].ride_id).available_seats = TestSeats
            => /\ resp'.code = 200
               /\ RequestIn(ride_requests', resp'.arg).status = "accepted"
               /\ RideIn(rides', ride_requests[i].ride_id).available_seats = TestSeats - 1

\* C25: the journey register, offer, register, request, look, accept ends
\* with the request accepted and one seat of the three taken.
C25_RequestFlowEndToEnd ==
    [][C25_ReceivedShowsPending /\ C25_AcceptLeavesTwoSeats]_vars

\* A registered and offered a ride with three seats, B registered after A
\* and requested it, and A has just accepted: two seats are left.
C25_Witness ==
    /\ resp.op = "respond_ride_request" /\ resp.code = 200 /\ resp.action = "accept"
    /\ Len(users) = 2 /\ Len(rides) = 1 /\ Len(ride_requests) = 1
    /\ rides[1].user_id = users[1].user_id
    /\ ride_requests[1].requester_id = users[2].user_id
    /\ ride_requests[1].ride_id = rides[1].ride_id
    /\ ride_requests[1].status = "accepted"
    /\ rides[1].available_seats = 2

(***************************************************************************)
(* C26: the requests a caller receives are exactly the stored requests on  *)
(* rides the caller owns at that moment, and none when the caller owns no  *)
(* ride.                                                                   *)
(***************************************************************************)
RidesOwnedBy(user_id) ==
    {rides[i].ride_id : i \in {j \in 1..Len(rides) : rides[j].user_id = user_id}}

RequestsOnRidesOf(user_id) ==
    {ride_requests[i].request_id :
        i \in {j \in 1..Len(ride_requests) :
                ride_requests[j].ride_id \in RidesOwnedBy(user_id)}}

C26_ReceivedExactlyOwn ==
    [][Called("get_received_requests") /\ Actor # None
        => /\ resp'.code = 200
           /\ {resp'.out[k].request_id : k \in 1..Len(resp'.out)}
                = RequestsOnRidesOf(Actor.user_id)
           /\ RidesOwnedBy(Actor.user_id) = {} => resp'.out = << >>]_vars

(***************************************************************************)
(* C27: a profile update sets, on the caller's own user record, the fields *)
(* of the patch that are present, and changes nothing else: not the        *)
(* record's other fields, not another user's record, not a session, a      *)
(* follow edge, a ride or a ride request.                                  *)
(***************************************************************************)
Patchable == {"name", "bio", "profile_picture", "profile_type", "is_public"}

C27_UpdateProfileFrame ==
    [][Called("update_profile") /\ Actor # None
        => /\ resp'.code = 200
           /\ Len(users') = Len(users)
           /\ \A i \in 1..Len(users) :
                /\ DOMAIN users'[i] = DOMAIN users[i]
                /\ \A field \in DOMAIN users[i] :
                    users'[i][field] =
                        IF /\ users[i].user_id = Actor.user_id
                           /\ field \in Patchable
                           /\ resp'.action[field] # << >>
                        THEN resp'.action[field][1]
                        ELSE users[i][field]
           /\ UNCHANGED <<user_sessions, user_passwords, follows, rides,
                          ride_requests>>]_vars

\* User 1, followed by user 2 who also offers a ride, has sent a patch with a
\* bio and no name: the bio is stored and the name is the one registered.
C27_Witness ==
    /\ resp.op = "update_profile" /\ resp.code = 200
    /\ resp.action.bio # << >> /\ resp.action.name = << >>
    /\ resp.out.bio = 1 /\ resp.out.name = <<"User", 1>>
    /\ follows # << >> /\ rides # << >>

(***************************************************************************)
(* C28: each of the nine write endpoints on profiles, follow edges, rides  *)
(* and ride requests, called with no token, or with a token that has no    *)
(* session row (never issued, or logged out), or whose row has expired,    *)
(* answers 401 and leaves every collection as it was.                      *)
(***************************************************************************)
Mutating ==
    {"update_profile", "follow_user", "unfollow_user", "respond_follow_request",
     "create_ride", "update_ride", "delete_ride", "request_ride", "respond_ride_request"}

NoToken(request) == Canonical(request) = NoId

NoSessionRow(request) ==
    Canonical(request) # NoId /\ RowsOf(user_sessions, Canonical(request)) = {}

ExpiredSession(request) ==
    /\ RowsOf(user_sessions, Canonical(request)) # {}
    /\ \A i \in RowsOf(user_sessions, Canonical(request)) : user_sessions[i].expires_at <= now

C28_WritesNeedSession ==
    [][\A op \in Mutating :
        Called(op) /\ (\/ NoToken(resp'.request)
                       \/ NoSessionRow(resp'.request)
                       \/ ExpiredSession(resp'.request))
            => /\ resp'.code = 401
               /\ UNCHANGED <<db, next>>]_vars

\* User 1, whose token has been logged out, has been refused the deletion of
\* the ride they offer, on which user 2 has a request.
C28_Witness ==
    /\ resp.op = "delete_ride" /\ resp.code = 401
    /\ resp.request = Request(1, NoId)
    /\ RowsOf(user_sessions, 1) = {}
    /\ now < SessionTTL
    /\ RideNamed(resp.arg) # None /\ RideNamed(resp.arg).user_id = 1
    /\ ride_requests # << >>

(***************************************************************************)
(* C29: the external-identity callback, given the data of a valid          *)
(* session, answers 200; when a stored user has the email it inserts no    *)
(* user and the new session belongs to that user; when none has, it        *)
(* inserts exactly one user, with that email; either way it inserts one    *)
(* session row, whose token is the token the identity service supplied.    *)
(***************************************************************************)
C29_UpsertFromExternalIdentity ==
    [][Called("google_callback") /\ resp'.arg # NoId /\ resp'.action # None
        => /\ resp'.code = 200
           /\ Len(user_sessions') = Len(user_sessions) + 1
           /\ SubSeq(user_sessions', 1, Len(user_sessions)) = user_sessions
           /\ user_sessions'[Len(user_sessions')].session_token = resp'.action.session_token
           /\ user_sessions'[Len(user_sessions')].user_id = resp'.out.user_id
           /\ EmailStored(resp'.action.email)
                => /\ users' = users
                   /\ \E i \in 1..Len(users) :
                        /\ users[i].email = resp'.action.email
                        /\ users[i].user_id = resp'.out.user_id
           /\ ~EmailStored(resp'.action.email)
                => /\ Len(users') = Len(users) + 1
                   /\ SubSeq(users', 1, Len(users)) = users
                   /\ users'[Len(users')].email = resp'.action.email
                   /\ users'[Len(users')].user_id = resp'.out.user_id
                   /\ resp'.out.user_id \notin UserIds]_vars

\* The callback has opened a session for a user who registered with that
\* email and a password: no user was added.
C29_Witness ==
    /\ resp.op = "google_callback" /\ resp.code = 200
    /\ Len(users) = 1
    /\ users[1].email = resp.action.email /\ users[1].auth_type = "email"
    /\ users[1].user_id = resp.out.user_id
    /\ user_sessions[Len(user_sessions)].session_token = resp.action.session_token
    /\ user_sessions[Len(user_sessions)].session_token \in ExternalTokens

(***************************************************************************)
(* C30: unfollow by A of B removes one edge A->B, be it pending, accepted  *)
(* or rejected, and leaves every other edge, B->A included, as it was;     *)
(* when there is no edge A->B it answers 404 and changes nothing; a        *)
(* response to a follow request, accept or reject, removes no edge.        *)
(***************************************************************************)
\* The edges of fs without the one at position i.
WithoutEdge(fs, i) ==
    [k \in 1..(Len(fs) - 1) |-> IF k < i THEN fs[k] ELSE fs[k + 1]]

FollowIdsIn(fs) == {fs[i].follow_id : i \in 1..Len(fs)}

C30_UnfollowRemovesOneEdge ==
    Called("unfollow_user") /\ Actor # None
        => /\ EdgesBetween(follows, Actor.user_id, resp'.arg) = {}
                => resp'.code = 404 /\ UNCHANGED db
           /\ EdgesBetween(follows, Actor.user_id, resp'.arg) # {}
                => /\ resp'.code = 200
                   /\ \E i \in EdgesBetween(follows, Actor.user_id, resp'.arg) :
                        follows' = WithoutEdge(follows, i)
                   /\ UNCHANGED <<users, user_sessions, user_passwords, rides,
                                  ride_requests>>

C30_RespondKeepsEdges ==
    Called("respond_follow_request")
        => /\ Len(follows') = Len(follows)
           /\ FollowIdsIn(follows') = FollowIdsIn(follows)

\* C30: only unfollow removes an edge, and it removes the caller's edge to
\* the named user and no other.
C30_OnlyUnfollowDeletesEdge ==
    [][C30_UnfollowRemovesOneEdge /\ C30_RespondKeepsEdges]_vars

\* A has unfollowed B: no edge A->B is left and the edge B->A is still there.
C30_Witness ==
    /\ resp.op = "unfollow_user" /\ resp.code = 200
    /\ get_current_user(resp.request) # None
    /\ EdgesBetween(follows, get_current_user(resp.request).user_id, resp.arg) = {}
    /\ EdgesBetween(follows, resp.arg, get_current_user(resp.request).user_id) # {}


(***************************************************************************)
(* C31: a ride created with available_seats >= 0 and never updated to a    *)
(* negative value has available_seats >= 0 in every reachable state, also  *)
(* when the reads and writes of the owner's concurrent accepts of          *)
(* different requests of the ride interleave.                              *)
(***************************************************************************)
C31_SeatsNeverNegative ==
    \A i \in 1..Len(rides) : rides[i].available_seats >= 0

(***************************************************************************)
(* C32: the seat decrement is a store-side increment, so no update is      *)
(* lost: when the concurrent accepts of k distinct pending requests of a   *)
(* ride with n >= k seats have all completed, the ride has n - k seats,    *)
(* whatever the interleaving (here n = MaxSeats).                          *)
(***************************************************************************)
AcceptedOn(ride_id) ==
    {j \in 1..Len(ride_requests) : /\ ride_requests[j].ride_id = ride_id
                                   /\ ride_requests[j].status = "accepted"}

C32_NoLostDecrement ==
    tasks = << >> =>
        \A i \in 1..Len(rides) :
            rides[i].available_seats = MaxSeats - Cardinality(AcceptedOn(rides[i].ride_id))

\* An accept is about to decrement a ride that another accept has
\* decremented since this one read it.
C32_Witness ==
    \E t \in 1..Len(tasks) :
        /\ tasks[t].pc = "inc"
        /\ RideNamed(tasks[t].found.ride_id).available_seats
                = tasks[t].ride.available_seats - 1
        /\ Cardinality(AcceptedOn(tasks[t].found.ride_id)) = 2

(***************************************************************************)
(* C33: an accept on a ride with available_seats > 0 writes the request's  *)
(* status and the seat decrement as one step: the step that makes a        *)
(* request accepted also takes its seat, so no state has the request       *)
(* accepted and the seat not yet taken.                                    *)
(***************************************************************************)
C33_AcceptWritesBothAtOnce ==
    [][\A j \in 1..Len(ride_requests) :
            /\ ride_requests[j].status # "accepted"
            /\ ride_requests'[j].status = "accepted"
            /\ RideNamed(ride_requests[j].ride_id) # None
            /\ RideNamed(ride_requests[j].ride_id).available_seats > 0
            => RideIn(rides', ride_requests[j].ride_id).available_seats
                    = RideNamed(ride_requests[j].ride_id).available_seats - 1]_vars


(***************************************************************************)
(* C34: under every interleaving of the target's concurrent answers to the *)
(* same pending follow edge, the edge's status changes once: an edge that  *)
(* is accepted or rejected keeps that status for as long as it is stored.  *)
(***************************************************************************)
C34_FollowDecidedOnce ==
    [][\A i \in 1..Len(follows) :
            /\ follows[i].status \in {"accepted", "rejected"}
            /\ EdgeIn(follows', follows[i].follow_id) # None
            => EdgeIn(follows', follows[i].follow_id).status = follows[i].status]_vars


(***************************************************************************)
(* C35: no two user records share a non-null email, and no two share a     *)
(* non-null phone, also when the store steps of concurrent register calls  *)
(* and external-identity callbacks with the same email interleave.         *)
(***************************************************************************)
C35_EmailAndPhoneUnique ==
    \A i, j \in 1..Len(users) :
        i # j => /\ users[i].email # NoId => users[i].email # users[j].email
                 /\ users[i].phone # NoId => users[i].phone # users[j].phone


(***************************************************************************)
(* C38: in every reachable state, the states between the store writes of   *)
(* register, guest_login and google_callback included, each session row's  *)
(* user_id names a stored user record, so a live session token never       *)
(* resolves to no user for want of its user.                               *)
(***************************************************************************)
C38_NoOrphanedSession ==
    \A i \in 1..Len(user_sessions) :
        /\ find_one(users, [user_id |-> {user_sessions[i].user_id}]) # None
        /\ ~session_expired(user_sessions[i])
            => get_current_user(Request(user_sessions[i].session_token, NoId)) # None

\* A sign-up has written its user record and not yet its session row, while
\* another one has written both.
C38_Witness ==
    /\ user_sessions # << >>
    /\ \E t \in 1..Len(tasks) :
            /\ tasks[t].pc = "insert_session"
            /\ tasks[t].op \in {"register", "guest_login"}
            /\ find_one(users, [user_id |-> {tasks[t].user.user_id}]) # None
            /\ find_one(user_sessions, [user_id |-> {tasks[t].user.user_id}]) = None


(***************************************************************************)
(* C36: for a ride whose available_seats no update changes (created with   *)
(* TestSeats seats), the seats consumed, TestSeats minus available_seats,  *)
(* never exceed the number of the ride's accepted requests, after any      *)
(* sequence of request and respond calls.                                  *)
(***************************************************************************)
C36_SeatsConsumedByAccepted ==
    \A i \in 1..Len(rides) :
        TestSeats - rides[i].available_seats <= Cardinality(AcceptedOn(rides[i].ride_id))


(***************************************************************************)
(* C37: a change of is_public through update_profile creates, deletes and  *)
(* changes no follow edge, so accepted edges stay accepted when the target *)
(* turns private and pending edges stay pending when it turns public; a    *)
(* repeated follow of a stored edge changes nothing and returns the edge's *)
(* stored status (pending, for a pending edge to a now public target).     *)
(***************************************************************************)
C37_VisibilityLeavesEdges ==
    [][/\ Called("update_profile") => follows' = follows
       /\ Called("follow_user") /\ Actor # None =>
            \A i \in EdgesBetween(follows, Actor.user_id, resp'.arg) :
                /\ follows' = follows
                /\ resp'.code = 200
                /\ resp'.out.status = follows[i].status]_vars

\* A follower has just repeated the follow of a user who turned public
\* after the edge was stored pending, and was answered pending.
C37_Witness ==
    /\ resp.op = "follow_user" /\ resp.code = 200
    /\ resp.out.message = "Already following or request pending"
    /\ resp.out.status = "pending"
    /\ find_one(users, [user_id |-> {resp.arg}]).is_public
    /\ \E i \in EdgesBetween(follows, get_current_user(resp.request).user_id, resp.arg) :
            follows[i].status = "pending"


(***************************************************************************)
(* C39: deleting a ride removes the ride and leaves its ride requests      *)
(* stored as they are; every later answer to a request of a ride that is   *)
(* no longer stored fails 403 for every caller, the former owner included, *)
(* and writes nothing, so the status of such a request never changes.      *)
(***************************************************************************)
C39_RequestsOutliveRide ==
    [][/\ Called("delete_ride") =>
            /\ ride_requests' = ride_requests
            /\ resp'.code = 200 => RideIn(rides', resp'.arg) = None
       /\ Called("respond_ride_request") /\ Actor # None
          /\ RequestNamed(resp'.arg) # None
          /\ RideNamed(RequestNamed(resp'.arg).ride_id) = None
            => /\ resp'.code = 403
               /\ ride_requests' = ride_requests
               /\ rides' = rides
       /\ \A j \in 1..Len(ride_requests) :
            RideNamed(ride_requests[j].ride_id) = None
                => /\ j <= Len(ride_requests')
                   /\ ride_requests'[j] = ride_requests[j]]_vars

\* The ride of a stored, accepted request has been deleted, and an answer to
\* that request has just failed 403.
C39_Witness ==
    /\ resp.op = "respond_ride_request" /\ resp.code = 403
    /\ RequestNamed(resp.arg) # None
    /\ RequestNamed(resp.arg).status = "accepted"
    /\ RideNamed(RequestNamed(resp.arg).ride_id) = None


(***************************************************************************)
(* C40: in respond_follow_request and in respond_ride_request every action *)
(* value other than accept, values that are neither accept nor reject      *)
(* included, is treated as reject: when the call passes its guards the     *)
(* status becomes rejected and no ride's available_seats changes.          *)
(***************************************************************************)
C40_NotAcceptIsReject ==
    [][/\ Called("respond_follow_request") /\ resp'.code = 200 /\ resp'.action # "accept"
            => /\ EdgeIn(follows', resp'.arg).status = "rejected"
               /\ resp'.out = "rejected"
               /\ rides' = rides
       /\ Called("respond_ride_request") /\ resp'.code = 200 /\ resp'.action # "accept"
            => /\ RequestIn(ride_requests', resp'.arg).status = "rejected"
               /\ resp'.out = "rejected"
               /\ rides' = rides]_vars

\* A ride request has just been answered with a value that is neither
\* accept nor reject, after a follow request was turned down.
C40_Witness ==
    /\ resp.op = "respond_ride_request" /\ resp.code = 200 /\ resp.action = "cancel"
    /\ RequestNamed(resp.arg).status = "rejected"
    /\ RideNamed(RequestNamed(resp.arg).ride_id).available_seats > 0
    /\ \E i \in 1..Len(follows) : follows[i].status = "rejected"

=============================================================================
